---- MODULE Spec2Model ----
(***************************************************************************)
(* Model of the persistent shell (persistent_shell.js: PersistentShell,    *)
(* its command queue, polling exec_, killChildren, getInstance) and of the *)
(* MCP stdio server (mcp.js: MCPServer.handleRequest, StdioTransport).     *)
(*                                                                         *)
(* A state is the program between two event-loop turns: every action is    *)
(* one callback (a caller's exec, a timer tick of checkCompletion, the     *)
(* shell's 'exit' event, an abort event) run to completion together with   *)
(* the promise continuations it triggers, or one step of the shell         *)
(* subprocess, which runs concurrently as a separate OS process.           *)
(***************************************************************************)
EXTENDS Integers, Sequences, FiniteSets, TLC

\* ---------------------------------------------------------------- bounds
MaxCmds == 3
MaxSessions == 2
\* commands submitted in the behaviours checked for liveness
MaxLiveCmds == 2
\* elapsed time is tracked in POLL_INTERVAL steps up to this horizon
MaxElapsed == 10
\* messages the client writes to the server's stdin
MaxMsgs == 3
\* lines in the byte stream the framer is checked on
MaxLines == 3
\* the largest limit a tools/list asks for, and the largest registry
MaxLimit == 8
MaxTools == 25
\* lines of isGit that wait in the shell's input at one time
MaxGitLines == 1
\* characters in the command text BashTool is checked on
MaxText == 4
\* resources/read requests a client makes
MaxReads == 2
\* tools/list requests a client is followed for
MaxPages == 27

\* ------------------------------------------------------ program constants
DEFAULT_TIMEOUT == 1800000
SIGTERM_CODE == 143
SYNTAX_ERROR_CODE == 128
POLL_INTERVAL == 10
\* BashTool: const { command, timeout = 120000 } = toolCall.input
BASH_TIMEOUT == 120000
JSON_RPC_VERSION == "2.0"
MCP_VERSION == "2024-11-05"
INVALID_REQUEST == -32600
NOT_INITIALIZED == -32001
METHOD_NOT_FOUND == -32601
SERVER_ERROR == -32000
INVALID_PARAMS == -32602
\* the tools of src/tools.js and the page size of tools/list without limit
TOOLS == 7
DEFAULT_LIMIT == 20

Cmds == 1..MaxCmds
Sessions == 1..MaxSessions
Msgs == 1..MaxMsgs

\* timeout arguments a caller passes: 0 stands for "not given" (falsy)
Timeouts == {0, 10}
\* amounts of time that pass between two callbacks
TickSteps == {POLL_INTERVAL, DEFAULT_TIMEOUT}
\* exit statuses a command that ends by itself may report
ExitCodes == {0}
\* whether the caller hands an abortSignal to exec
SignalGiven == {TRUE}
\* the commands a caller passes: syntactically valid or not, with a timeout
\* argument (exec_ returns before it reads the timeout of an invalid one)
Commands ==
  {[syntaxOk |-> TRUE, timeout |-> t] : t \in Timeouts}
    \cup {[syntaxOk |-> FALSE, timeout |-> 0]}

TIMEOUT_NOTE == "Command execution timed out"
SYNTAX_NOTE == "syntax error"

Min(a, b) == IF a < b THEN a ELSE b

VARIABLES
  instance,     \* PersistentShell.instance: 0 is null, else a session
  shells,       \* session -> the PersistentShell object, its files, its subprocess
  cmds,         \* command id -> the queued command and its promise
  settled,      \* the exec promises settled in the last turn, in order:
                \* [cmd, result] as handed to the caller's resolve or reject,
                \* and whether the command text was syntactically valid
  initialized,        \* MCPServer.initialized
  clientCapabilities, \* MCPServer.clientCapabilities: "null" or "set"
  exited,       \* process.exit has been called
  reqs,         \* message -> what became of it: its id, its responses
  received,     \* the message handled in the last turn, and the
                \* initialized flag it met
  called,       \* the handlers handleRequest invoked in the last turn
  sent,         \* the responses written to stdout in the last turn, in order
  input,        \* the bytes the client writes to stdin, all of them
  stream,       \* the bytes of input that have not arrived yet
  buffer,       \* ReadBuffer.buffer
  dispatched,   \* the messages handed to _handleMessage, in order
  tools,        \* MCPServer.tools: the number of tools registered
  limit,        \* params.limit of the client's tools/list calls (0: none)
  cursor,       \* the nextCursor of the last page the client was given
  pages,        \* the pages the client was given, in order
  commandText,  \* toolCall.input.command of a call of BashTool's handler
  answer,       \* what that call has done
  listed,       \* the resources of the last resources/list result
  reads         \* the resources/read requests made and their responses

pager == <<tools, limit, cursor, pages>>

bash == <<commandText, answer>>

reader == <<listed, reads>>

vars == <<instance, shells, cmds, settled, initialized, clientCapabilities,
          exited, reqs, received, called, sent, input, stream, buffer,
          dispatched, tools, limit, cursor, pages, commandText,
          answer, listed, reads>>

\* ------------------------------------------------------------------ files
EmptyFile == [exists |-> TRUE, content |-> <<>>]
NoFile == [exists |-> FALSE, content |-> <<>>]

\* a session that has not been constructed
NoSession ==
  [isAlive |-> FALSE, isExecuting |-> FALSE, commandQueue |-> <<>>,
   commandInterrupted |-> FALSE, current |-> 0, elapsed |-> 0,
   statusFile |-> NoFile, stdoutFile |-> NoFile, stderrFile |-> NoFile,
   cwdFile |-> NoFile,
   \* the subprocess: its state, the lines it has not read, the command it
   \* evaluates, whether that command has a child process running and
   \* whether that child has descendants of its own
   proc |-> "none", stdin |-> <<>>, running |-> 0, phase |-> "idle",
   code |-> 0, child |-> FALSE, deep |-> FALSE]

\* new PersistentShell(): spawn, fields, the four files
NewSession ==
  [NoSession EXCEPT !.isAlive = TRUE, !.proc = "up",
     !.statusFile = EmptyFile, !.stdoutFile = EmptyFile,
     !.stderrFile = EmptyFile,
     !.cwdFile = [exists |-> TRUE, content |-> <<0>>]]

\* a command nobody has submitted yet
NoCmd ==
  [state |-> "none", sess |-> 0, timeout |-> 0, syntaxOk |-> TRUE,
   hasSignal |-> FALSE, aborted |-> FALSE, listener |-> FALSE,
   emitted |-> FALSE, req |-> 0]

\* a message that has not arrived
NoReq == [state |-> "none", hasId |-> FALSE, answers |-> 0, tool |-> "none"]

\* the parameters of a message without params
NoParams ==
  [protocolVersion |-> "none", name |-> "none", hasInput |-> FALSE,
   banned |-> FALSE, syntaxOk |-> TRUE]

NoRequest == [jsonrpc |-> "none", hasId |-> FALSE, method |-> "none",
              params |-> NoParams]

\* the handler of BashTool has not been called
NoAnswer == [kind |-> "none", bannedCmd |-> <<>>]

\* no message was handled in this turn
NoMsg == [msg |-> 0, request |-> NoRequest, initialized |-> FALSE]

\* the program state as one value, threaded through the operators below
World == [inst |-> instance, sh |-> shells, cm |-> cmds, so |-> <<>>,
          rq |-> reqs, out |-> <<>>]

\* what is left of a session object once nothing refers to it: it is not
\* the instance, its subprocess has been reaped, no command waits on it
Dropped == [NoSession EXCEPT !.proc = "reaped"]

Unreferenced(w, s) ==
  /\ w.inst # s
  /\ w.sh[s].proc = "reaped"
  /\ w.sh[s].current = 0
  /\ w.sh[s].commandQueue = <<>>

Collect(w) ==
  [w EXCEPT !.sh = [s \in Sessions |->
                      IF Unreferenced(w, s) THEN Dropped ELSE w.sh[s]]]

Apply(w) ==
  \E v \in {Collect(w)} :
    /\ instance' = v.inst
    /\ shells' = v.sh
    /\ cmds' = v.cm
    /\ settled' = v.so
    /\ reqs' = v.rq
    /\ sent' = v.out

\* the program runs until process.exit
Running == ~exited

\* a turn in which the server object is not touched
ServerIdle ==
  /\ received' = NoMsg
  /\ called' = {}
  /\ UNCHANGED <<initialized, clientCapabilities, exited>>
  /\ UNCHANGED <<input, stream, buffer, dispatched>>
  /\ UNCHANGED pager
  /\ UNCHANGED bash
  /\ UNCHANGED reader

\* a turn that settles no promise and writes no response
Quiet ==
  /\ settled' = <<>>
  /\ sent' = <<>>
  /\ reqs' = reqs
  /\ ServerIdle

\* ------------------------------------------------------------- responses
\* a response: result or error, the error's code and whether it has a data
\* field, the result's protocolVersion ("none" if it has none)
Result ==
  [hasResult |-> TRUE, hasError |-> FALSE, code |-> 0, hasData |-> FALSE,
   protocolVersion |-> "none"]
Error(code) ==
  [hasResult |-> FALSE, hasError |-> TRUE, code |-> code, hasData |-> FALSE,
   protocolVersion |-> "none"]

\* the line written for the response to message m
Written(m, response) ==
  [msg |-> m, hasResult |-> response.hasResult,
   hasError |-> response.hasError, code |-> response.code,
   hasData |-> response.hasData,
   protocolVersion |-> response.protocolVersion]

\* StdioTransport._handleMessage: if (response) this.send(response)
Respond(w, m, response) ==
  [w EXCEPT !.rq[m] = [NoReq EXCEPT !.state = "done", !.hasId = w.rq[m].hasId,
                                    !.answers = Min(w.rq[m].answers + 1, 2)],
            !.out = Append(@, Written(m, response))]

\* handleRequest returned null: nothing is sent
NoResponse(w, m) ==
  [w EXCEPT !.rq[m] = [NoReq EXCEPT !.state = "done", !.hasId = w.rq[m].hasId,
                                    !.answers = w.rq[m].answers]]

\* what a tools/call of BashTool answers once exec has settled: the
\* handler's result, or the error of handleRequest's catch
ToolCallResponse(res) ==
  IF res.kind = "resolved" THEN Result ELSE Error(SERVER_ERROR)

\* a continuation that never writes the response
ContinueDeferred(w, req, res) == w

\* the continuation of the caller awaiting exec: a tool handler answering
\* request req, or a direct caller (req = 0)
Continue(w, req, res) ==
  IF req = 0 THEN w ELSE Respond(w, req, ToolCallResponse(res))

\* F applied to the value of x, with x evaluated once (call by value, as
\* the program passes its arguments)
ByValue(F(_), x) == CHOOSE r \in {F(v) : v \in {x}} : TRUE

\* timeout || DEFAULT_TIMEOUT
commandTimeout(timeout) == IF timeout # 0 THEN timeout ELSE DEFAULT_TIMEOUT

\* ------------------------------------------------------------ getInstance
Unbuilt == {s \in Sessions : shells[s].proc = "none"}

NeedsNew(w) == w.inst = 0 \/ ~w.sh[w.inst].isAlive

FreshSession(w) == CHOOSE s \in Sessions :
  /\ w.sh[s].proc = "none"
  /\ \A t \in Sessions : w.sh[t].proc = "none" => s <= t

\* a getInstance that does not look at isAlive
GetInstanceNoCheck(w) ==
  IF w.inst = 0 /\ Unbuilt # {}
  THEN LET n == FreshSession(w)
       IN [w EXCEPT !.inst = n, !.sh[n] = NewSession]
  ELSE w

GetInstance(w) ==
  IF NeedsNew(w)
  THEN LET n == FreshSession(w)
       IN [w EXCEPT !.inst = n, !.sh[n] = NewSession]
  ELSE w

\* the model can construct at most MaxSessions sessions
CanGetInstance == ~NeedsNew(World) \/ Unbuilt # {}

\* the subprocess is gone: its pending input and its position vanish with it
Gone(sh) ==
  [sh EXCEPT !.proc = "dead", !.stdin = <<>>, !.running = 0, !.phase = "idle",
             !.code = 0, !.child = FALSE, !.deep = FALSE]

\* ----------------------------------------------------------- killChildren
\* a killChildren that leaves commandInterrupted alone
KillChildrenNoFlag(w, s) ==
  LET sh == w.sh[s]
      hit == sh.proc = "up" /\ sh.child
  IN [w EXCEPT !.sh[s] =
        [sh EXCEPT !.child = FALSE,
                   !.phase = IF hit THEN "pwd" ELSE @,
                   !.code = IF hit THEN SIGTERM_CODE ELSE @]]

\* a killChildren that signals the shell process as well
KillChildrenAndShell(w, s) ==
  [w EXCEPT !.sh[s] = [(IF @.proc = "up" THEN Gone(@) ELSE @)
                         EXCEPT !.commandInterrupted = TRUE]]

\* pgrep -P shell.pid, SIGTERM to each child; finally commandInterrupted
KillChildren(w, s) ==
  LET sh == w.sh[s]
      hit == sh.proc = "up" /\ sh.child
  IN [w EXCEPT !.sh[s] =
        [sh EXCEPT !.commandInterrupted = TRUE,
                   !.child = FALSE,
                   !.phase = IF hit THEN "pwd" ELSE @,
                   !.code = IF hit THEN SIGTERM_CODE ELSE @]]

\* ------------------------------------------------------------ sendToShell
\* the line 'git status' in the shell's input: no command of the queue
GitStatus == 0

\* stdin.write(command + '\n'): the line reaches the subprocess if it runs
SendToShell(w, s, c) ==
  [w EXCEPT !.sh[s].stdin = IF w.sh[s].proc = "up" THEN Append(@, c) ELSE @,
            !.cm[c].emitted = TRUE]

\* whether stdin.write throws for command c: only possible on a closed
\* pipe; wt is the set of commands whose write would throw
WriteThrows(w, s, c, wt) == c \in wt /\ w.sh[s].proc # "up"

\* the outcomes of the writes of one turn on session s: the commands
\* that may be dispatched are those waiting on s and the ones pushed now
ThrowChoices(w, s, pushed) ==
  IF w.sh[s].proc = "up" THEN {{}}
  ELSE SUBSET ({c \in Cmds : w.cm[c].state = "queued" /\ w.cm[c].sess = s}
                 \cup pushed)

\* ----------------------------------------------- processQueue, exec_, exec
RECURSIVE ProcessQueue(_, _, _)
RECURSIVE Settle(_, _, _, _, _)

\* a processQueue whose catch rejects without a finally block
SettleNoFinally(w, s, c, res, wt) ==
  LET w1 == [w EXCEPT !.cm[c] = [NoCmd EXCEPT !.state = "settled", !.sess = s,
                                   !.hasSignal = w.cm[c].hasSignal],
                      !.so = Append(@, [cmd |-> c, syntaxOk |-> w.cm[c].syntaxOk,
                                        result |-> res]),
                      !.sh[s].current = 0,
                      !.sh[s].elapsed = 0]
      w2 == Continue(w1, w.cm[c].req, res)
  IN IF res.kind = "rejected" THEN w2
     ELSE ByValue(LAMBDA v : ProcessQueue(v, s, wt),
                  [w2 EXCEPT !.sh[s].isExecuting = FALSE])

\* a settlement whose finally block leaves the abort listener on the signal
SettleKeepListener(w, s, c, res, wt) ==
  LET w1 == [w EXCEPT !.cm[c] = [NoCmd EXCEPT !.state = "settled", !.sess = s,
                                   !.hasSignal = w.cm[c].hasSignal,
                                   !.listener = w.cm[c].listener],
                      !.so = Append(@, [cmd |-> c, syntaxOk |-> w.cm[c].syntaxOk,
                                        result |-> res]),
                      !.sh[s].isExecuting = FALSE,
                      !.sh[s].current = 0,
                      !.sh[s].elapsed = 0]
      w2 == Continue(w1, w.cm[c].req, res)
  IN ByValue(LAMBDA v : ProcessQueue(v, s, wt), w2)

\* a settlement whose finally block does not call processQueue again
SettleNoDrain(w, s, c, res, wt) ==
  LET w1 == [w EXCEPT !.cm[c] = [NoCmd EXCEPT !.state = "settled", !.sess = s,
                                   !.hasSignal = w.cm[c].hasSignal],
                      !.so = Append(@, [cmd |-> c, syntaxOk |-> w.cm[c].syntaxOk,
                                        result |-> res]),
                      !.sh[s].isExecuting = FALSE,
                      !.sh[s].current = 0,
                      !.sh[s].elapsed = 0]
  IN Continue(w1, w.cm[c].req, res)

\* the continuation of processQueue after await exec_: resolve or reject,
\* then the finally block, which starts the next command
Settle(w, s, c, res, wt) ==
  LET w1 == [w EXCEPT !.cm[c] = [NoCmd EXCEPT !.state = "settled", !.sess = s,
                                   !.hasSignal = w.cm[c].hasSignal],
                      !.so = Append(@, [cmd |-> c, syntaxOk |-> w.cm[c].syntaxOk,
                                        result |-> res]),
                      !.sh[s].isExecuting = FALSE,
                      !.sh[s].current = 0,
                      !.sh[s].elapsed = 0]
      w2 == Continue(w1, w.cm[c].req, res)
  IN ByValue(LAMBDA v : ProcessQueue(v, s, wt), w2)

\* an exec_ without the syntax pre-check
Exec_NoCheck(w, s, c, wt) ==
  LET w1 == [w EXCEPT !.sh[s].commandInterrupted = FALSE,
                      !.sh[s].stdoutFile = EmptyFile,
                      !.sh[s].stderrFile = EmptyFile,
                      !.sh[s].statusFile = EmptyFile]
  IN IF WriteThrows(w1, s, c, wt)
     THEN ByValue(LAMBDA v : Settle(v, s, c, [kind |-> "rejected"], wt), w1)
     ELSE LET w2 == SendToShell(w1, s, c)
          IN [w2 EXCEPT !.sh[s].current = c, !.sh[s].elapsed = 0]

\* exec_(command, timeout): bash -n first; a command that fails it is
\* answered at once, any other is written to the shell and polled
Exec_(w, s, c, wt) ==
  IF ~w.cm[c].syntaxOk
  THEN ByValue(LAMBDA v : Settle(v, s, c,
                 [kind |-> "resolved", stdout |-> <<>>,
                  stderr |-> <<SYNTAX_NOTE>>,
                  code |-> SYNTAX_ERROR_CODE, interrupted |-> FALSE], wt), w)
  ELSE
    LET w1 == [w EXCEPT !.sh[s].commandInterrupted = FALSE,
                        !.sh[s].stdoutFile = EmptyFile,
                        !.sh[s].stderrFile = EmptyFile,
                        !.sh[s].statusFile = EmptyFile]
    IN IF WriteThrows(w1, s, c, wt)
       THEN ByValue(LAMBDA v : Settle(v, s, c, [kind |-> "rejected"], wt), w1)
       ELSE LET w2 == SendToShell(w1, s, c)
            IN [w2 EXCEPT !.sh[s].current = c, !.sh[s].elapsed = 0]

\* a processQueue that forgets the isExecuting test
ProcessQueueGuardNoBusy(sh) == sh.commandQueue = <<>>

\* if (this.isExecuting || this.commandQueue.length === 0) return;
ProcessQueueGuard(sh) == sh.isExecuting \/ sh.commandQueue = <<>>

\* a queue that hands out its newest entry
QueuePop(q) == [item |-> q[Len(q)], rest |-> SubSeq(q, 1, Len(q) - 1)]

\* this.commandQueue.shift()
QueueShift(q) == [item |-> Head(q), rest |-> Tail(q)]

\* a processQueue that applies an abort that came while the command waited
ProcessQueueRetroactive(w, s, wt) ==
  LET sh == w.sh[s]
  IN IF ProcessQueueGuard(sh) THEN w
     ELSE LET c == QueueShift(sh.commandQueue).item
              w1 == [w EXCEPT !.sh[s].isExecuting = TRUE,
                              !.sh[s].commandQueue = QueueShift(@).rest,
                              !.cm[c].state = "inflight",
                              !.cm[c].listener = w.cm[c].hasSignal]
              w2 == ByValue(LAMBDA v : Exec_(v, s, c, wt), w1)
          IN IF w.cm[c].aborted /\ w2.cm[c].state = "inflight"
             THEN ByValue(LAMBDA v : KillChildren(v, s), w2)
             ELSE w2

ProcessQueue(w, s, wt) ==
  LET sh == w.sh[s]
  IN IF ProcessQueueGuard(sh) THEN w
     ELSE LET c == QueueShift(sh.commandQueue).item
              w1 == [w EXCEPT !.sh[s].isExecuting = TRUE,
                              !.sh[s].commandQueue = QueueShift(@).rest,
                              !.cm[c].state = "inflight",
                              !.cm[c].listener = w.cm[c].hasSignal]
          IN ByValue(LAMBDA v : Exec_(v, s, c, wt), w1)

\* an exec that registers the abort listener when the command is queued
ExecOnListening(w, s, c, timeout, syntaxOk, hasSignal, req, wt) ==
  LET w1 == [w EXCEPT !.cm[c] = [NoCmd EXCEPT !.state = "queued", !.sess = s,
                                   !.timeout = timeout, !.syntaxOk = syntaxOk,
                                   !.hasSignal = hasSignal,
                                   !.listener = hasSignal, !.req = req],
                      !.sh[s].commandQueue = Append(@, c)]
  IN ByValue(LAMBDA v : ProcessQueue(v, s, wt), w1)

\* exec(command, abortSignal, timeout): push, then processQueue
ExecOn(w, s, c, timeout, syntaxOk, hasSignal, req, wt) ==
  LET w1 == [w EXCEPT !.cm[c] = [NoCmd EXCEPT !.state = "queued", !.sess = s,
                                   !.timeout = timeout, !.syntaxOk = syntaxOk,
                                   !.hasSignal = hasSignal, !.req = req],
                      !.sh[s].commandQueue = Append(@, c)]
  IN ByValue(LAMBDA v : ProcessQueue(v, s, wt), w1)

Unsubmitted == {c \in Cmds : cmds[c].state = "none"}
NextCmd == CHOOSE c \in Unsubmitted : \A d \in Unsubmitted : c <= d

\* ================================================================ actions
Init ==
  /\ instance = 0
  /\ shells = [s \in Sessions |-> NoSession]
  /\ cmds = [c \in Cmds |-> NoCmd]
  /\ settled = <<>>
  /\ initialized = FALSE
  /\ clientCapabilities = "null"
  /\ exited = FALSE
  /\ reqs = [m \in Msgs |-> NoReq]
  /\ received = NoMsg
  /\ called = {}
  /\ sent = <<>>
  /\ input = <<>>
  /\ stream = <<>>
  /\ buffer = <<>>
  /\ dispatched = <<>>
  /\ tools = TOOLS
  /\ limit = 0
  /\ cursor = <<>>
  /\ pages = <<>>
  /\ commandText = <<>>
  /\ answer = NoAnswer
  /\ listed = <<>>
  /\ reads = <<>>

\* a caller runs PersistentShell.getInstance().exec(command, signal, timeout)
Exec ==
  /\ Running
  /\ Unsubmitted # {}
  /\ CanGetInstance
  /\ \E w1 \in {GetInstance(World)} :
       \E command \in Commands, hasSignal \in SignalGiven,
          wt \in ThrowChoices(w1, w1.inst, {NextCmd}) :
         Apply(ExecOn(w1, w1.inst, NextCmd, command.timeout, command.syntaxOk,
                      hasSignal, 0, wt))
  /\ ServerIdle

\* one tick of the checkCompletion interval of session s
\* a completion test that only looks at the status file
PollFiresNoTimeout(sh) ==
  \/ (sh.statusFile.exists /\ sh.statusFile.content # <<>>)
  \/ sh.commandInterrupted

PollFires(sh) ==
  \/ (sh.statusFile.exists /\ sh.statusFile.content # <<>>)
  \/ sh.elapsed > commandTimeout(cmds[sh.current].timeout)
  \/ sh.commandInterrupted

\* a checkCompletion without the else branch: Number('') of the empty file
CompletionResultNoElse(sh, interrupted) ==
  LET statusFileSize == IF sh.statusFile.exists
                        THEN Len(sh.statusFile.content) ELSE 0
  IN [kind |-> "resolved",
      stdout |-> IF sh.stdoutFile.exists THEN sh.stdoutFile.content ELSE <<>>,
      stderr |-> IF sh.stderrFile.exists THEN sh.stderrFile.content ELSE <<>>,
      code |-> IF statusFileSize > 0 THEN sh.statusFile.content[1].code ELSE 0,
      interrupted |-> interrupted]

\* the value checkCompletion resolves with; interrupted is the flag as it
\* stands after the timeout branch has run killChildren
CompletionResult(sh, interrupted) ==
  LET statusFileSize == IF sh.statusFile.exists
                        THEN Len(sh.statusFile.content) ELSE 0
      stdout == IF sh.stdoutFile.exists THEN sh.stdoutFile.content ELSE <<>>
      stderr == IF sh.stderrFile.exists THEN sh.stderrFile.content ELSE <<>>
  IN [kind |-> "resolved",
      stdout |-> stdout,
      stderr |-> IF statusFileSize > 0 THEN stderr
                 ELSE Append(stderr, TIMEOUT_NOTE),
      code |-> IF statusFileSize > 0 THEN sh.statusFile.content[1].code
               ELSE SIGTERM_CODE,
      interrupted |-> interrupted]

StatusFileSize(sh) ==
  IF sh.statusFile.exists THEN Len(sh.statusFile.content) ELSE 0

Poll(s) ==
  /\ Running
  /\ shells[s].current # 0
  /\ PollFires(shells[s])
  /\ \E wt \in ThrowChoices(World, s, {}) :
       LET sh == shells[s]
           c == sh.current
           w1 == IF StatusFileSize(sh) > 0 THEN World ELSE KillChildren(World, s)
           res == CompletionResult(sh, w1.sh[s].commandInterrupted)
       IN Apply(ByValue(LAMBDA v : Settle(v, s, c, res, wt), w1))
  /\ ServerIdle

\* Date.now() - start after d more milliseconds; beyond the horizon only the
\* long step is taken, and the value saturates one past the longest timeout
Advance(elapsed, d) ==
  IF d = POLL_INTERVAL THEN elapsed + d
  ELSE Min(elapsed + d, DEFAULT_TIMEOUT + 1)

\* time passes while some command is being polled
Tick ==
  \E d \in TickSteps :
    LET adv(sh) == IF sh.current = 0 THEN sh.elapsed ELSE Advance(sh.elapsed, d)
    IN /\ Running
       /\ \E s \in Sessions : adv(shells[s]) # shells[s].elapsed
       /\ d = POLL_INTERVAL =>
            \A s \in Sessions : adv(shells[s]) <= MaxElapsed
       /\ shells' = [s \in Sessions |-> [shells[s] EXCEPT !.elapsed = adv(shells[s])]]
       /\ Quiet
       /\ UNCHANGED <<instance, cmds>>

\* the owner of a command's AbortController calls abort() while the call
\* is pending (afterwards no listener is left and nothing reads the signal)
Abort(c) ==
  /\ Running
  /\ cmds[c].hasSignal
  /\ cmds[c].state \in {"queued", "inflight"}
  /\ ~cmds[c].aborted
  /\ LET w1 == [World EXCEPT !.cm[c].aborted = TRUE]
     IN Apply(IF cmds[c].listener THEN KillChildren(w1, cmds[c].sess) ELSE w1)
  /\ ServerIdle

\* the subprocess of session s ends (exit in a command, a signal, a crash)
ShellDies(s) ==
  /\ Running
  /\ shells[s].proc = "up"
  /\ shells' = [shells EXCEPT ![s] = Gone(@)]
  /\ Quiet
  /\ UNCHANGED <<instance, cmds>>

\* shell.on('exit')
ExitHandler(s) ==
  /\ Running
  /\ shells[s].proc = "dead"
  /\ shells' = [shells EXCEPT ![s].proc = "reaped",
                              ![s].statusFile = NoFile,
                              ![s].stdoutFile = NoFile,
                              ![s].stderrFile = NoFile,
                              ![s].cwdFile = NoFile,
                              ![s].isAlive = FALSE]
  /\ Quiet
  /\ UNCHANGED <<instance, cmds>>

\* ------------------------------------------- the subprocess, line by line
\* the shell reads the next composite line and starts its eval
ShellStart(s) ==
  /\ Running
  /\ shells[s].proc = "up"
  /\ shells[s].phase = "idle"
  /\ shells[s].stdin # <<>>
  /\ Head(shells[s].stdin) # GitStatus
  /\ \E child \in BOOLEAN, deep \in BOOLEAN :
       /\ deep => child
       /\ shells' = [shells EXCEPT ![s].running = Head(shells[s].stdin),
                                ![s].stdin = Tail(@),
                                ![s].phase = "eval",
                                ![s].child = child,
                                ![s].deep = deep,
                                ![s].stdoutFile = EmptyFile,
                                ![s].stderrFile = EmptyFile]
  /\ Quiet
  /\ UNCHANGED <<instance, cmds>>

\* the command writes its output and its eval ends by itself;
\* EXEC_EXIT_CODE=$?
ShellEvalEnd(s) ==
  /\ Running
  /\ shells[s].proc = "up"
  /\ shells[s].phase = "eval"
  /\ \E code \in ExitCodes :
       LET c == shells[s].running
           put(f) == [exists |-> TRUE, content |-> Append(f.content, c)]
       IN shells' = [shells EXCEPT ![s].phase = "pwd", ![s].code = code,
                                   ![s].child = FALSE,
                                   ![s].deep = FALSE,
                                   ![s].stdoutFile = put(@),
                                   ![s].stderrFile = put(@)]
  /\ Quiet
  /\ UNCHANGED <<instance, cmds>>

\* pwd > cwdFile; echo $EXEC_EXIT_CODE > statusFile
ShellWriteStatus(s) ==
  /\ Running
  /\ shells[s].proc = "up"
  /\ shells[s].phase = "pwd"
  /\ shells' = [shells EXCEPT ![s].phase = "idle",
                              ![s].running = 0,
                              ![s].code = 0,
                              ![s].cwdFile = [exists |-> TRUE,
                                              content |-> <<shells[s].running>>],
                              ![s].statusFile =
                                 [exists |-> TRUE,
                                  content |-> <<[by |-> shells[s].running,
                                                 code |-> shells[s].code]>>]]
  /\ Quiet
  /\ UNCHANGED <<instance, cmds>>

Next ==
  \/ Exec
  \/ \E s \in Sessions : Poll(s)
  \/ Tick
  \/ \E c \in Cmds : Abort(c)
  \/ \E s \in Sessions : ShellDies(s)
  \/ \E s \in Sessions : ExitHandler(s)
  \/ \E s \in Sessions : ShellStart(s)
  \/ \E s \in Sessions : ShellEvalEnd(s)
  \/ \E s \in Sessions : ShellWriteStatus(s)

Spec == Init /\ [][Next]_vars

\* ============================================== the functions of the module
\* a turn of a caller of the module's functions: fns names what it called
ApiTurn(fns) ==
  /\ received' = NoMsg
  /\ called' = fns
  /\ UNCHANGED <<initialized, clientCapabilities, exited>>
  /\ UNCHANGED <<input, stream, buffer, dispatched>>
  /\ UNCHANGED pager
  /\ UNCHANGED bash
  /\ UNCHANGED reader

\* the lines of isGit waiting in the input of session s
GitLines(sh) == {i \in 1..Len(sh.stdin) : sh.stdin[i] = GitStatus}

\* isGit(): PersistentShell.getInstance().sendToShell('git status')
IsGit ==
  /\ Running
  /\ CanGetInstance
  /\ \E w1 \in {GetInstance(World)} :
       /\ Cardinality(GitLines(w1.sh[w1.inst])) < MaxGitLines
       /\ w1.sh[w1.inst].proc = "up"
       /\ Apply([w1 EXCEPT !.sh[w1.inst].stdin = Append(@, GitStatus)])
  /\ ApiTurn({"isGit"})

\* the shell reads the line 'git status' and runs it: its output goes to
\* the shell's own stdout, no side-channel file is written
ShellRunsGit(s) ==
  /\ Running
  /\ shells[s].proc = "up"
  /\ shells[s].phase = "idle"
  /\ shells[s].stdin # <<>>
  /\ Head(shells[s].stdin) = GitStatus
  /\ shells' = [shells EXCEPT ![s].stdin = Tail(@)]
  /\ Quiet
  /\ UNCHANGED <<instance, cmds>>

\* PersistentShell.restart(): close() ends the input of the subprocess and
\* signals it, then the instance is forgotten
Restart ==
  /\ Running
  /\ instance # 0
  /\ Apply([World EXCEPT !.inst = 0,
                         !.sh[instance] = IF @.proc = "up" THEN Gone(@) ELSE @])
  /\ ApiTurn({"restart"})

\* a setCwd that does not look whether the path exists
SetCwdNoCheck(w, s, c, exists, syntaxOk, wt) ==
  ExecOn(w, s, c, 0, syntaxOk, FALSE, 0, wt)

\* PersistentShell.setCwd(cwd) on session s: throws if the resolved path
\* does not exist, else awaits exec of the cd command c
SetCwdOn(w, s, c, exists, syntaxOk, wt) ==
  IF ~exists THEN w
  ELSE ExecOn(w, s, c, 0, syntaxOk, FALSE, 0, wt)

\* setCwd(cwd): PersistentShell.getInstance().setCwd(cwd)
SetCwd ==
  /\ Running
  /\ Unsubmitted # {}
  /\ CanGetInstance
  /\ \E w1 \in {GetInstance(World)} :
       \E exists \in BOOLEAN, syntaxOk \in BOOLEAN,
          wt \in ThrowChoices(w1, w1.inst, {NextCmd}) :
         /\ Apply(SetCwdOn(w1, w1.inst, NextCmd, exists, syntaxOk, wt))
         /\ ApiTurn({"setCwd", IF exists THEN "path exists"
                                         ELSE "path missing"})

\* the callers of the module's functions setCwd and restart
NextApi ==
  \/ SetCwd
  \/ Restart
  \/ \E s \in Sessions : Poll(s)
  \/ Tick
  \/ \E s \in Sessions : ShellDies(s)
  \/ \E s \in Sessions : ExitHandler(s)
  \/ \E s \in Sessions : ShellStart(s)
  \/ \E s \in Sessions : ShellEvalEnd(s)
  \/ \E s \in Sessions : ShellWriteStatus(s)

SpecApi == Init /\ [][NextApi]_vars

\* the same callers, and callers of isGit
NextGit ==
  \/ SetCwd
  \/ IsGit
  \/ Restart
  \/ \E s \in Sessions : Poll(s)
  \/ Tick
  \/ \E s \in Sessions : ShellDies(s)
  \/ \E s \in Sessions : ExitHandler(s)
  \/ \E s \in Sessions : ShellStart(s)
  \/ \E s \in Sessions : ShellRunsGit(s)
  \/ \E s \in Sessions : ShellEvalEnd(s)
  \/ \E s \in Sessions : ShellWriteStatus(s)

SpecGit == Init /\ [][NextGit]_vars


\* ============================================================= MCP server
JsonRpcVersions == {JSON_RPC_VERSION, "1.0"}

Methods ==
  {"initialize", "ping", "tools/list", "tools/call", "no/such",
   "notifications/initialized", "disconnect"}

\* params.protocolVersion: absent, the supported one, another one
ProtocolVersions == {"none", MCP_VERSION, "1.0.0"}

\* params of tools/call: name absent, a name that is not registered,
\* GlobTool, BashTool; arguments absent or given; for BashTool a banned
\* command, a command with a syntax error, a good command
ToolCalls ==
  {[NoParams EXCEPT !.name = n] : n \in {"none", "NoSuchTool"}}
    \cup {[NoParams EXCEPT !.name = n, !.hasInput = i] :
            n \in {"GlobTool", "BashTool"}, i \in BOOLEAN}
    \cup {[NoParams EXCEPT !.name = "BashTool", !.hasInput = TRUE,
                           !.banned = b, !.syntaxOk = k] :
            b \in BOOLEAN, k \in BOOLEAN}

ParamsOf(method) ==
  CASE method = "initialize" ->
         {[NoParams EXCEPT !.protocolVersion = v] : v \in ProtocolVersions}
    [] method = "tools/call" -> ToolCalls
    [] OTHER -> {NoParams}

\* the messages a client may write, one per chunk
Requests ==
  UNION {[jsonrpc : JsonRpcVersions, hasId : BOOLEAN, method : {mt},
          params : ParamsOf(mt)] : mt \in Methods}

Unreceived == {m \in Msgs : reqs[m].state = "none"}
NextMsg == CHOOSE m \in Unreceived : \A n \in Unreceived : m <= n

\* a gate that lets tools/list through
GatedButList(request) ==
  /\ ~initialized
  /\ request.method \notin {"initialize", "ping", "tools/list"}

\* if (!this.initialized && method !== 'initialize' && method !== 'ping')
Gated(request) ==
  /\ ~initialized
  /\ request.method # "initialize"
  /\ request.method # "ping"

SUPPORTED_VERSIONS == <<MCP_VERSION>>

\* the result of initialize
InitializeResult(version) == [Result EXCEPT !.protocolVersion = version]

\* the object handleInitialize throws when params has no protocolVersion
MissingVersion ==
  [Error(INVALID_PARAMS) EXCEPT !.hasData = TRUE]

\* the catch of handleRequest: code -32000 and the thrown message, nothing
\* else of what was thrown
Caught(thrown) == Error(SERVER_ERROR)

\* a handleInitialize that refuses a version it does not support
HandleInitializeStrict(params) ==
  LET reset == IF initialized THEN FALSE ELSE initialized
  IN IF params.protocolVersion = "none"
        \/ \A i \in 1..Len(SUPPORTED_VERSIONS) :
             SUPPORTED_VERSIONS[i] # params.protocolVersion
     THEN [initialized |-> reset, clientCapabilities |-> clientCapabilities,
           threw |-> TRUE, response |-> MissingVersion]
     ELSE [initialized |-> TRUE, clientCapabilities |-> "set",
           threw |-> FALSE,
           response |-> InitializeResult(params.protocolVersion)]

\* a handleInitialize that refuses a second handshake
HandleInitializeOnce(params) ==
  IF initialized \/ params.protocolVersion = "none"
  THEN [initialized |-> initialized,
        clientCapabilities |-> clientCapabilities,
        threw |-> TRUE, response |-> MissingVersion]
  ELSE [initialized |-> TRUE, clientCapabilities |-> "set",
        threw |-> FALSE,
        response |-> InitializeResult(
          IF \E i \in 1..Len(SUPPORTED_VERSIONS) :
               SUPPORTED_VERSIONS[i] = params.protocolVersion
          THEN params.protocolVersion ELSE SUPPORTED_VERSIONS[1])]

\* handleInitialize: the fields it leaves behind, whether it threw, and
\* what it returned or threw
HandleInitialize(params) ==
  LET reset == IF initialized THEN FALSE ELSE initialized
  IN IF params.protocolVersion = "none"
     THEN [initialized |-> reset, clientCapabilities |-> clientCapabilities,
           threw |-> TRUE, response |-> MissingVersion]
     ELSE IF \A i \in 1..Len(SUPPORTED_VERSIONS) :
               SUPPORTED_VERSIONS[i] # params.protocolVersion
     THEN [initialized |-> TRUE, clientCapabilities |-> "set",
           threw |-> FALSE,
           response |-> InitializeResult(SUPPORTED_VERSIONS[1])]
     ELSE [initialized |-> TRUE, clientCapabilities |-> "set",
           threw |-> FALSE,
           response |-> InitializeResult(params.protocolVersion)]

\* the end of the turn in which message m was handled
Turn(w, m, request, fns, init, caps, exit) ==
  /\ Apply(w)
  /\ initialized' = init
  /\ clientCapabilities' = caps
  /\ exited' = exit
  /\ received' = [msg |-> m, request |-> request, initialized |-> initialized]
  /\ called' = fns
  /\ UNCHANGED <<input, stream, buffer, dispatched>>
  /\ UNCHANGED pager
  /\ UNCHANGED bash
  /\ UNCHANGED reader

\* a turn whose response is held back while the shell runs a command
AnswerAfterShell(w, m, request, fns) ==
  Turn(IF \E c \in Cmds : cmds[c].state = "inflight"
       THEN [w EXCEPT !.out = <<>>] ELSE w,
       m, request, fns, initialized, clientCapabilities, FALSE)

\* a turn that leaves the server's fields alone
Answer(w, m, request, fns) ==
  Turn(w, m, request, fns, initialized, clientCapabilities, FALSE)

\* handleToolCall for message m
HandleToolCall(w, m, request) ==
  LET params == request.params
      pending(tool) == [w EXCEPT !.rq[m].tool = tool]
  IN CASE params.name \in {"none", "NoSuchTool"} ->
            Answer(Respond(w, m, Error(SERVER_ERROR)), m, request,
                   {"handleToolCall"})
       [] params.name = "GlobTool" ->
            IF ~params.hasInput
            THEN Answer(Respond(w, m, Error(SERVER_ERROR)), m, request,
                        {"handleToolCall", "GlobTool.handler"})
            ELSE Answer(pending("GlobTool"), m, request,
                        {"handleToolCall", "GlobTool.handler"})
       [] params.name = "BashTool" ->
            IF ~params.hasInput
            THEN Answer(Respond(w, m, Error(SERVER_ERROR)), m, request,
                        {"handleToolCall", "BashTool.handler"})
            ELSE IF params.banned
            THEN Answer(Respond(w, m, Result), m, request,
                        {"handleToolCall", "BashTool.handler"})
            ELSE /\ Unsubmitted # {}
                 /\ CanGetInstance
                 /\ \E w1 \in {GetInstance(pending("BashTool"))} :
                      \E wt \in ThrowChoices(w1, w1.inst, {NextCmd}) :
                        Answer(ExecOn(w1, w1.inst, NextCmd, BASH_TIMEOUT,
                                      params.syntaxOk, TRUE, m, wt),
                               m, request,
                               {"handleToolCall", "BashTool.handler"})

\* handleNotification: 'disconnect' calls process.exit(0)
HandleNotification(w, m, request) ==
  Turn(NoResponse(w, m), m, request, {"handleNotification"},
       initialized, clientCapabilities, request.method = "disconnect")

\* StdioTransport._handleMessage(message): handleRequest and the send of
\* its response
HandleMessage(m, request) ==
  LET w == [World EXCEPT !.rq[m] = [NoReq EXCEPT !.state = "pending",
                                                 !.hasId = request.hasId]]
  IN IF request.jsonrpc # JSON_RPC_VERSION
     THEN Answer(Respond(w, m, Error(INVALID_REQUEST)), m, request, {})
     ELSE IF ~request.hasId
     THEN HandleNotification(w, m, request)
     ELSE IF Gated(request)
     THEN Answer(Respond(w, m, Error(NOT_INITIALIZED)), m, request, {})
     ELSE CASE request.method = "initialize" ->
                 LET r == HandleInitialize(request.params)
                 IN Turn(Respond(w, m, IF r.threw THEN Caught(r.response)
                                       ELSE r.response),
                         m, request, {"handleInitialize"},
                         r.initialized, r.clientCapabilities, FALSE)
            [] request.method = "ping" ->
                 Answer(Respond(w, m, Result), m, request, {})
            [] request.method = "tools/list" ->
                 Answer(Respond(w, m, Result), m, request, {"handleToolsList"})
            [] request.method = "tools/call" ->
                 HandleToolCall(w, m, request)
            [] OTHER ->
                 Answer(Respond(w, m, Error(METHOD_NOT_FOUND)), m, request, {})

\* stdin 'data': the next message of the client arrives
Receive ==
  /\ Running
  /\ Unreceived # {}
  /\ \E request \in Requests : HandleMessage(NextMsg, request)

\* the find of a GlobTool call ends ('close'): the handler returns
ToolReturns(m) ==
  /\ Running
  /\ reqs[m].state = "pending"
  /\ reqs[m].tool = "GlobTool"
  /\ Apply(Respond(World, m, Result))
  /\ settled' = <<>>
  /\ ServerIdle

\* stdin 'end': _onEnd calls process.exit(0)
StdinEnd ==
  /\ Running
  /\ exited' = TRUE
  /\ received' = NoMsg
  /\ called' = {}
  /\ settled' = <<>>
  /\ sent' = <<>>
  /\ UNCHANGED <<instance, shells, cmds, reqs, initialized, clientCapabilities>>
  /\ UNCHANGED <<input, stream, buffer, dispatched>>
  /\ UNCHANGED pager
  /\ UNCHANGED bash
  /\ UNCHANGED reader

\* the server process: commands reach the shell through tools/call only,
\* and the AbortController of handleToolCall is never aborted
NextServer ==
  \/ Receive
  \/ \E m \in Msgs : ToolReturns(m)
  \/ StdinEnd
  \/ \E s \in Sessions : Poll(s)
  \/ Tick
  \/ \E s \in Sessions : ShellDies(s)
  \/ \E s \in Sessions : ExitHandler(s)
  \/ \E s \in Sessions : ShellStart(s)
  \/ \E s \in Sessions : ShellEvalEnd(s)
  \/ \E s \in Sessions : ShellWriteStatus(s)

SpecServer == Init /\ [][NextServer]_vars


\* ================================================================ framing
\* a byte of the stream: a line feed, other whitespace (space, tab, CR),
\* the first or the last byte of the JSON text of message msg, or a byte
\* that is part of no JSON text
Byte(kind, msg) == [kind |-> kind, msg |-> msg]
LF == Byte("LF", 0)
SP == Byte("SP", 0)
Junk == Byte("junk", 0)
\* the JSON text null
NullText == Byte("null", 0)

\* the lines a client may write: a message on one line, a message followed
\* by CR LF, a message printed over two lines, an empty line, a line that
\* is not JSON
LineKinds == {"message", "crlf", "pretty", "empty", "junk"}
MessageKinds == {"message", "crlf", "pretty"}
\* the lines that hold one well-formed JSON text each: an object, a number
\* or a string, the value null; and the empty line
ValueLineKinds == {"message", "crlf", "scalar", "null", "empty"}
\* the lines whose JSON value is given the next number
NumberedKinds == MessageKinds \cup {"scalar"}

Line(kind, msg) ==
  CASE kind = "message" -> <<Byte("open", msg), Byte("close", msg), LF>>
    [] kind = "crlf" -> <<Byte("open", msg), Byte("close", msg), SP, LF>>
    [] kind = "pretty" -> <<Byte("open", msg), LF, Byte("close", msg), LF>>
    [] kind = "empty" -> <<LF>>
    [] kind = "scalar" -> <<Byte("scalar", msg), LF>>
    [] kind = "null" -> <<NullText, LF>>
    [] OTHER -> <<Junk, LF>>

\* the bytes of the lines, the messages numbered in the order written
RECURSIVE Encode(_, _)
Encode(kinds, msg) ==
  IF kinds = <<>> THEN <<>>
  ELSE IF Head(kinds) \in NumberedKinds
       THEN Line(Head(kinds), msg) \o Encode(Tail(kinds), msg + 1)
       ELSE Line(Head(kinds), 0) \o Encode(Tail(kinds), msg)

Streams ==
  {Encode(kinds, 1) : kinds \in UNION {[1..n -> LineKinds] : n \in 1..MaxLines}}

ValueStreams ==
  {Encode(kinds, 1) :
     kinds \in UNION {[1..n -> ValueLineKinds] : n \in 1..MaxLines}}

IsWhitespace(b) == b.kind \in {"LF", "SP"}

\* the bytes of a text that are not whitespace
RECURSIVE Content(_)
Content(bytes) ==
  IF bytes = <<>> THEN <<>>
  ELSE IF IsWhitespace(Head(bytes)) THEN Content(Tail(bytes))
       ELSE <<Head(bytes)>> \o Content(Tail(bytes))

\* what JSON.parse gives for the text null
Null == 0 - 1

\* JSON.parse(jsonStr): the value (the number of the message, Null for
\* null), or 0 if it throws
JsonParse(bytes) ==
  LET c == Content(bytes)
  IN IF Len(c) = 2 /\ c[1].kind = "open" /\ c[2].kind = "close"
        /\ c[1].msg = c[2].msg
     THEN c[1].msg
     ELSE IF Len(c) = 1 /\ c[1].kind = "scalar" THEN c[1].msg
     ELSE IF c = <<NullText>> THEN Null
     ELSE 0

\* let message = null; ... message = JSON.parse(jsonStr); return message:
\* what the caller sees, 0 standing for null
ReturnValue(value) == IF value = Null THEN 0 ELSE value

\* the index of the first byte that is not whitespace, Len + 1 if none
FirstContent(bytes) ==
  IF \E i \in 1..Len(bytes) : ~IsWhitespace(bytes[i])
  THEN CHOOSE i \in 1..Len(bytes) :
         /\ ~IsWhitespace(bytes[i])
         /\ \A j \in 1..(i - 1) : IsWhitespace(bytes[j])
  ELSE Len(bytes) + 1

\* a readMessage that forgets what it could not parse yet
ReadMessageNoRetain(bytes) ==
  LET start == FirstContent(bytes)
      ends == {i \in start..Len(bytes) :
                 bytes[i] = LF /\ JsonParse(SubSeq(bytes, start, i - 1)) # 0}
  IN IF ends = {} THEN [message |-> 0, buffer |-> <<>>]
     ELSE LET i == CHOOSE i \in ends : \A j \in ends : i <= j
          IN [message |-> ReturnValue(JsonParse(SubSeq(bytes, start, i - 1))),
              buffer |-> SubSeq(bytes, i + 1, Len(bytes))]

\* ReadBuffer.readMessage on a buffer holding bytes: the message returned
\* (0 for null) and the buffer left behind
ReadMessage(bytes) ==
  LET start == FirstContent(bytes)
      ends == {i \in start..Len(bytes) :
                 bytes[i] = LF /\ JsonParse(SubSeq(bytes, start, i - 1)) # 0}
  IN IF start = Len(bytes) + 1 THEN [message |-> 0, buffer |-> <<>>]
     ELSE IF ends = {} THEN [message |-> 0, buffer |-> bytes]
     ELSE LET i == CHOOSE i \in ends : \A j \in ends : i <= j
          IN [message |-> ReturnValue(JsonParse(SubSeq(bytes, start, i - 1))),
              buffer |-> SubSeq(bytes, i + 1, Len(bytes))]

\* StdioTransport._processBuffer: read and dispatch until readMessage
\* returns null
RECURSIVE ProcessBuffer(_, _)
ProcessBuffer(bytes, handled) ==
  LET r == ReadMessage(bytes)
  IN IF r.message = 0 THEN [buffer |-> r.buffer, dispatched |-> handled]
     ELSE ProcessBuffer(r.buffer, Append(handled, r.message))

InitFraming ==
  /\ instance = 0
  /\ shells = [s \in Sessions |-> NoSession]
  /\ cmds = [c \in Cmds |-> NoCmd]
  /\ settled = <<>>
  /\ initialized = FALSE
  /\ clientCapabilities = "null"
  /\ exited = FALSE
  /\ reqs = [m \in Msgs |-> NoReq]
  /\ received = NoMsg
  /\ called = {}
  /\ sent = <<>>
  /\ input \in Streams
  /\ stream = input
  /\ buffer = <<>>
  /\ dispatched = <<>>
  /\ tools = TOOLS
  /\ limit = 0
  /\ cursor = <<>>
  /\ pages = <<>>
  /\ commandText = <<>>
  /\ answer = NoAnswer
  /\ listed = <<>>
  /\ reads = <<>>

\* a client that writes JSON values of every kind, one on each line
InitValues ==
  /\ instance = 0
  /\ shells = [s \in Sessions |-> NoSession]
  /\ cmds = [c \in Cmds |-> NoCmd]
  /\ settled = <<>>
  /\ initialized = FALSE
  /\ clientCapabilities = "null"
  /\ exited = FALSE
  /\ reqs = [m \in Msgs |-> NoReq]
  /\ received = NoMsg
  /\ called = {}
  /\ sent = <<>>
  /\ input \in ValueStreams
  /\ stream = input
  /\ buffer = <<>>
  /\ dispatched = <<>>
  /\ tools = TOOLS
  /\ limit = 0
  /\ cursor = <<>>
  /\ pages = <<>>
  /\ commandText = <<>>
  /\ answer = NoAnswer
  /\ listed = <<>>
  /\ reads = <<>>

\* stdin 'data': _onData(chunk) with the next n bytes of the stream
OnData(n) ==
  /\ Running
  /\ n <= Len(stream)
  /\ LET chunk == SubSeq(stream, 1, n)
         r == ProcessBuffer(buffer \o chunk, dispatched)
     IN /\ buffer' = r.buffer
        /\ dispatched' = r.dispatched
        /\ stream' = SubSeq(stream, n + 1, Len(stream))
  /\ UNCHANGED <<input, instance, shells, cmds, settled, initialized,
                 clientCapabilities, exited, reqs, received, called, sent>>
  /\ UNCHANGED pager
  /\ UNCHANGED bash
  /\ UNCHANGED reader

NextFraming == \E n \in 1..(4 * MaxLines) : OnData(n)

SpecFraming == InitFraming /\ [][NextFraming]_vars

SpecValues == InitValues /\ [][NextFraming]_vars


\* ============================================================= tools/list
\* endIndex.toString(): the decimal digits of n
\* the minus sign among the digits of a string
MinusSign == 0 - 1

RECURSIVE toString(_)
toString(n) ==
  IF n < 0 THEN <<MinusSign>> \o toString(0 - n)
  ELSE IF n < 10 THEN <<n>> ELSE Append(toString(n \div 10), n % 10)

\* Number(cursor) of a string of digits
RECURSIVE Number(_)
Number(digits) ==
  IF digits = <<>> THEN 0
  ELSE IF Head(digits) = MinusSign THEN 0 - Number(Tail(digits))
  ELSE 10 * Number(SubSeq(digits, 1, Len(digits) - 1)) + digits[Len(digits)]

\* toolNames.slice(startIndex, endIndex), the tools named by their place
\* in Object.keys(this.tools), counted from 1; a negative index counts
\* from the end of the array, and an index is kept within the array
Slice(startIndex, endIndex) ==
  LET relative(k) == IF k < 0 THEN (IF tools + k < 0 THEN 0 ELSE tools + k)
                     ELSE Min(k, tools)
      from == relative(startIndex)
      to == relative(endIndex)
  IN [i \in 1..(IF to > from THEN to - from ELSE 0) |-> from + i]

\* a handleToolsList that leaves out the tool at the cursor
HandleToolsListSkip(params) ==
  LET lim == IF params.limit # 0 THEN params.limit ELSE DEFAULT_LIMIT
      startIndex == IF params.cursor # <<>> THEN Number(params.cursor) ELSE 0
      endIndex == Min(startIndex + lim, tools)
  IN [tools |-> Slice(startIndex + 1, endIndex),
      nextCursor |-> IF endIndex < tools THEN toString(endIndex) ELSE <<>>]

\* handleToolsList(params): limit 0 stands for a limit that is absent or
\* that Number() turns into 0 or NaN, cursor <<>> for one that is absent
\* or empty; a negative limit is truthy and is used as it is
HandleToolsList(params) ==
  LET lim == IF params.limit # 0 THEN params.limit ELSE DEFAULT_LIMIT
      startIndex == IF params.cursor # <<>> THEN Number(params.cursor) ELSE 0
      endIndex == Min(startIndex + lim, tools)
  IN [tools |-> Slice(startIndex, endIndex),
      nextCursor |-> IF endIndex < tools THEN toString(endIndex) ELSE <<>>]

\* the registries and the limits the pager is checked on
Registries == {0, TOOLS, MaxTools}
Limits == 0..MaxLimit
\* every limit a caller may supply: zero or not a number (0), positive,
\* negative
AnyLimits == (0 - MaxLimit)..MaxLimit

InitPager ==
  /\ instance = 0
  /\ shells = [s \in Sessions |-> NoSession]
  /\ cmds = [c \in Cmds |-> NoCmd]
  /\ settled = <<>>
  /\ initialized = TRUE
  /\ clientCapabilities = "set"
  /\ exited = FALSE
  /\ reqs = [m \in Msgs |-> NoReq]
  /\ received = NoMsg
  /\ called = {}
  /\ sent = <<>>
  /\ input = <<>>
  /\ stream = <<>>
  /\ buffer = <<>>
  /\ dispatched = <<>>
  /\ tools \in Registries
  /\ limit \in Limits
  /\ cursor = <<>>
  /\ pages = <<>>
  /\ commandText = <<>>
  /\ answer = NoAnswer
  /\ listed = <<>>
  /\ reads = <<>>

\* the client asks for the first page, without a cursor
ListFirst ==
  /\ Running
  /\ pages = <<>>
  /\ commandText = <<>>
  /\ answer = NoAnswer
  /\ LET r == HandleToolsList([limit |-> limit, cursor |-> <<>>])
     IN /\ pages' = <<r.tools>>
        /\ cursor' = r.nextCursor
  /\ UNCHANGED <<tools, limit>>
  /\ UNCHANGED <<instance, shells, cmds, settled, initialized,
                 clientCapabilities, exited, reqs, received, called, sent,
                 input, stream, buffer, dispatched>>
  /\ UNCHANGED bash
  /\ UNCHANGED reader

\* the client follows the nextCursor it was given
ListNext ==
  /\ Running
  /\ pages # <<>>
  /\ cursor # <<>>
  /\ Len(pages) < MaxPages
  /\ LET r == HandleToolsList([limit |-> limit, cursor |-> cursor])
     IN /\ pages' = Append(pages, r.tools)
        /\ cursor' = r.nextCursor
  /\ UNCHANGED <<tools, limit>>
  /\ UNCHANGED <<instance, shells, cmds, settled, initialized,
                 clientCapabilities, exited, reqs, received, called, sent,
                 input, stream, buffer, dispatched>>
  /\ UNCHANGED bash
  /\ UNCHANGED reader

NextPager == ListFirst \/ ListNext

SpecPager == InitPager /\ [][NextPager]_vars

\* a client that may supply any limit
InitPagerAny ==
  /\ instance = 0
  /\ shells = [s \in Sessions |-> NoSession]
  /\ cmds = [c \in Cmds |-> NoCmd]
  /\ settled = <<>>
  /\ initialized = TRUE
  /\ clientCapabilities = "set"
  /\ exited = FALSE
  /\ reqs = [m \in Msgs |-> NoReq]
  /\ received = NoMsg
  /\ called = {}
  /\ sent = <<>>
  /\ input = <<>>
  /\ stream = <<>>
  /\ buffer = <<>>
  /\ dispatched = <<>>
  /\ tools \in Registries
  /\ limit \in AnyLimits
  /\ cursor = <<>>
  /\ pages = <<>>
  /\ commandText = <<>>
  /\ answer = NoAnswer
  /\ listed = <<>>
  /\ reads = <<>>

\* the client keeps sending its next request
FairPager ==
  /\ InitPagerAny /\ [][NextPager]_vars
  /\ WF_vars(ListFirst)
  /\ WF_vars(ListNext)


\* =============================================================== BashTool
\* the characters of a command text: letters, the word character "_",
\* and the characters space, ";" and "-" that are no word characters
Chars == {"r", "m", "x", "h", "_", " ", ";", "-"}
WordChars == {"r", "m", "x", "h", "_"}

\* BANNED_COMMANDS, the names that can be written with Chars
BANNED_COMMANDS == << <<"r", "m">>, <<"x", "h">> >>

\* the texts a caller passes as command
Texts == UNION {[1..n -> Chars] : n \in 0..MaxText}

\* \b at the place between character k and character k + 1 of text
WordBoundary(text, k) ==
  LET before == k >= 1 /\ text[k] \in WordChars
      after == k < Len(text) /\ text[k + 1] \in WordChars
  IN before # after

\* a test that looks for the name at the start of the text only
RegexTestAtStart(cmd, text) ==
  /\ Len(cmd) <= Len(text)
  /\ SubSeq(text, 1, Len(cmd)) = cmd
  /\ WordBoundary(text, Len(cmd))

\* new RegExp(`\\b${cmd}\\b`).test(text)
RegexTest(cmd, text) ==
  \E i \in 1..(Len(text) - Len(cmd) + 1) :
    /\ SubSeq(text, i, i + Len(cmd) - 1) = cmd
    /\ WordBoundary(text, i - 1)
    /\ WordBoundary(text, i + Len(cmd) - 1)

\* BANNED_COMMANDS.find(...): the first banned name the text matches,
\* <<>> if there is none
BannedCmd(text) ==
  LET hits == {k \in 1..Len(BANNED_COMMANDS) :
                 RegexTest(BANNED_COMMANDS[k], text)}
  IN IF hits = {} THEN <<>>
     ELSE BANNED_COMMANDS[CHOOSE k \in hits : \A l \in hits : k <= l]

InitBash ==
  /\ instance = 0
  /\ shells = [s \in Sessions |-> NoSession]
  /\ cmds = [c \in Cmds |-> NoCmd]
  /\ settled = <<>>
  /\ initialized = TRUE
  /\ clientCapabilities = "set"
  /\ exited = FALSE
  /\ reqs = [m \in Msgs |-> NoReq]
  /\ received = NoMsg
  /\ called = {}
  /\ sent = <<>>
  /\ input = <<>>
  /\ stream = <<>>
  /\ buffer = <<>>
  /\ dispatched = <<>>
  /\ tools = TOOLS
  /\ limit = 0
  /\ cursor = <<>>
  /\ pages = <<>>
  /\ commandText \in Texts
  /\ answer = NoAnswer
  /\ listed = <<>>
  /\ reads = <<>>

\* BashTool's handler is called with the command and no timeout: it
\* returns the error result for a banned command, else it awaits exec
BashHandler ==
  /\ Running
  /\ answer = NoAnswer
  /\ IF BannedCmd(commandText) # <<>>
     THEN /\ answer' = [kind |-> "banned", bannedCmd |-> BannedCmd(commandText)]
          /\ UNCHANGED <<instance, shells, cmds, settled, reqs, sent>>
     ELSE /\ answer' = [kind |-> "awaits exec", bannedCmd |-> <<>>]
          /\ \E w1 \in {GetInstance(World)} :
               \E syntaxOk \in BOOLEAN,
                  wt \in ThrowChoices(w1, w1.inst, {NextCmd}) :
                 Apply(ExecOn(w1, w1.inst, NextCmd, BASH_TIMEOUT, syntaxOk,
                              TRUE, 0, wt))
  /\ received' = NoMsg
  /\ called' = {"BashTool.handler"}
  /\ UNCHANGED <<initialized, clientCapabilities, exited, commandText>>
  /\ UNCHANGED <<input, stream, buffer, dispatched>>
  /\ UNCHANGED pager
  /\ UNCHANGED reader

NextBash == BashHandler

SpecBash == InitBash /\ [][NextBash]_vars


\* ============================================================== resources
\* this.resources as the constructor builds it: an array of three
\* descriptors, each named here by its uri
RESOURCES == <<"mcp://tools", "mcp://config", "mcp://package">>

\* params.uri of a resources/read: absent, the uri of a descriptor, another
\* uri, and strings that name an own property of an array
Uris ==
  {"none", "mcp://tools", "mcp://config", "mcp://package", "mcp://other",
   "0", "1", "2", "3", "length"}

\* the place in the array that a property key names, 0 if it is no index
ArrayIndex(key) ==
  CASE key = "0" -> 1
    [] key = "1" -> 2
    [] key = "2" -> 3
    [] key = "3" -> 4
    [] OTHER -> 0

\* array[key]: the element at an index key below the length, the length
\* for "length", undefined for any other key
PropertyOf(array, key) ==
  IF ArrayIndex(key) \in 1..Len(array)
  THEN [defined |-> TRUE, describes |-> array[ArrayIndex(key)]]
  ELSE IF key = "length"
  THEN [defined |-> TRUE, describes |-> "length"]
  ELSE [defined |-> FALSE, describes |-> "undefined"]

\* !value: undefined is falsy, a descriptor is truthy, a length is truthy
\* unless it is 0
Falsy(array, property) ==
  \/ ~property.defined
  \/ property.describes = "length" /\ Len(array) = 0

\* handleResourcesList: Object.values(this.resources), empty nextCursor
HandleResourcesList == [resources |-> RESOURCES, nextCursor |-> <<>>]

\* handleResourceRead(params): throws if the uri is absent or names no
\* property of this.resources, else returns the uri with the property
\* serialized
HandleResourceRead(uri) ==
  LET property == PropertyOf(RESOURCES, uri)
  IN IF uri = "none" THEN [threw |-> TRUE, content |-> "undefined"]
     ELSE IF Falsy(RESOURCES, property)
     THEN [threw |-> TRUE, content |-> "undefined"]
     ELSE [threw |-> FALSE, content |-> property.describes]

\* handleRequest for a resources/read request with an id
ReadResponse(uri) ==
  IF ~initialized THEN Error(NOT_INITIALIZED)
  ELSE IF HandleResourceRead(uri).threw THEN Caught("Error")
  ELSE Result

InitResources ==
  /\ instance = 0
  /\ shells = [s \in Sessions |-> NoSession]
  /\ cmds = [c \in Cmds |-> NoCmd]
  /\ settled = <<>>
  /\ initialized \in BOOLEAN
  /\ clientCapabilities = IF initialized THEN "set" ELSE "null"
  /\ exited = FALSE
  /\ reqs = [m \in Msgs |-> NoReq]
  /\ received = NoMsg
  /\ called = {}
  /\ sent = <<>>
  /\ input = <<>>
  /\ stream = <<>>
  /\ buffer = <<>>
  /\ dispatched = <<>>
  /\ tools = TOOLS
  /\ limit = 0
  /\ cursor = <<>>
  /\ pages = <<>>
  /\ commandText = <<>>
  /\ answer = NoAnswer
  /\ listed = <<>>
  /\ reads = <<>>

\* the client sends resources/list and keeps the result
ResourcesList ==
  /\ Running
  /\ listed = <<>>
  /\ initialized
  /\ listed' = HandleResourcesList.resources
  /\ UNCHANGED reads
  /\ UNCHANGED <<instance, shells, cmds, settled, initialized,
                 clientCapabilities, exited, reqs, received, called, sent,
                 input, stream, buffer, dispatched>>
  /\ UNCHANGED pager
  /\ UNCHANGED bash

\* the client sends resources/read with some uri
ResourceRead ==
  /\ Running
  /\ Len(reads) < MaxReads
  /\ \E uri \in Uris :
       reads' = Append(reads, [uri |-> uri, response |-> ReadResponse(uri),
                               content |-> IF initialized
                                           THEN HandleResourceRead(uri).content
                                           ELSE "undefined"])
  /\ UNCHANGED listed
  /\ UNCHANGED <<instance, shells, cmds, settled, initialized,
                 clientCapabilities, exited, reqs, received, called, sent,
                 input, stream, buffer, dispatched>>
  /\ UNCHANGED pager
  /\ UNCHANGED bash

NextResources == ResourcesList \/ ResourceRead

SpecResources == InitResources /\ [][NextResources]_vars


\* ================================================================= claims
SameSession(a, b) == cmds[a].sess # 0 /\ cmds[a].sess = cmds[b].sess

\* the commands of session s whose composite line was emitted and whose
\* exec_ has neither resolved nor rejected
Unsettled(s) ==
  {c \in Cmds : cmds[c].sess = s /\ cmds[c].emitted /\ cmds[c].state # "settled"}

\* C1: on every session at most one command is in flight: no second
\* composite line is emitted before the previous exec_ has settled
C1_OneInFlight ==
  \A s \in Sessions :
    /\ Cardinality(Unsettled(s)) <= 1
    /\ Cardinality({c \in Cmds : cmds[c].sess = s /\ cmds[c].state = "inflight"}) <= 1

\* a second command waited for the first and was then emitted in its turn
C1_Witness ==
  \E a, b \in Cmds :
    /\ a # b /\ SameSession(a, b)
    /\ cmds[a].state = "settled"
    /\ cmds[b].state = "inflight" /\ cmds[b].emitted
    /\ shells[cmds[b].sess].current = b

\* C2: commands of one session are dispatched and settled in submission
\* order (command ids are handed out in submission order)
C2_Fifo ==
  /\ \A a, b \in Cmds :
       (a < b /\ SameSession(a, b) /\ cmds[b].state \in {"inflight", "settled"})
         => cmds[a].state = "settled"
  /\ \A i, j \in 1..Len(settled) :
       (i < j /\ SameSession(settled[i].cmd, settled[j].cmd))
         => settled[i].cmd < settled[j].cmd

\* three commands on one session: the first settled, the second in flight,
\* the third still waiting
C2_Witness ==
  \E a, b, c \in Cmds :
    /\ a < b /\ b < c /\ SameSession(a, b) /\ SameSession(b, c)
    /\ cmds[a].state = "settled"
    /\ cmds[b].state = "inflight"
    /\ cmds[c].state = "queued"

\* the message handled in the step is an id-bearing request for a method
\* other than initialize and ping, and the server was not initialized
GateCase ==
  /\ received'.msg # 0
  /\ ~initialized
  /\ received'.request.hasId
  /\ received'.request.method \notin {"initialize", "ping"}

\* the only thing written in the step is an error response of this code to
\* the message handled; no handler ran, no command was submitted, no tool
\* call is under way, and the flag is as before
Rejected(code) ==
  /\ sent' = <<Written(received'.msg, Error(code))>>
  /\ called' = {}
  /\ cmds' = cmds
  /\ shells' = shells
  /\ reqs'[received'.msg].state = "done"
  /\ initialized' = initialized

\* C3: when the process has exited, every message that arrived with an id
\* has been answered exactly once; no message is answered twice, and every
\* response carries either a result or an error, not both
C3_ExactlyOne ==
  /\ \A i \in 1..Len(sent) : sent[i].hasResult # sent[i].hasError
  /\ \A m \in Msgs :
       (reqs[m].state # "none" /\ reqs[m].hasId) =>
         /\ reqs[m].answers <= 1
         /\ exited => reqs[m].answers = 1

\* the part of C3 the server keeps: never two responses, never both fields
C3_AtMostOne ==
  /\ \A i \in 1..Len(sent) : sent[i].hasResult # sent[i].hasError
  /\ \A m \in Msgs : reqs[m].answers <= 1

\* C4 as stated: every id-bearing request for a method other than
\* initialize and ping that arrives while the server is not initialized is
\* answered with the not-initialized error -32001
C4_Original ==
  [][GateCase => Rejected(NOT_INITIALIZED)]_vars

\* C4: such a request is answered with -32001 if it carries jsonrpc "2.0"
\* and with -32600 otherwise; in both cases no handler is invoked, no tool
\* runs and the initialized flag is unchanged
C4_Gate ==
  [][GateCase =>
       Rejected(IF received'.request.jsonrpc = JSON_RPC_VERSION
                THEN NOT_INITIALIZED ELSE INVALID_REQUEST)]_vars

\* a well-formed tools/call of BashTool with a good command was rejected
\* by the gate: -32001, and no command reached the shell
C4_Witness ==
  /\ received.msg # 0
  /\ ~initialized
  /\ received.request.hasId
  /\ received.request.jsonrpc = JSON_RPC_VERSION
  /\ received.request.method = "tools/call"
  /\ received.request.params.name = "BashTool"
  /\ received.request.params.hasInput
  /\ ~received.request.params.banned
  /\ sent = <<Written(received.msg, Error(NOT_INITIALIZED))>>
  /\ called = {}
  /\ \A c \in Cmds : cmds[c].state = "none"


\* the result delivered for command c in the last turn
ResultOf(c) ==
  LET i == CHOOSE i \in 1..Len(settled) : settled[i].cmd = c
  IN settled[i].result

JustSettled(c) == \E i \in 1..Len(settled) : settled[i].cmd = c

TimedOutResult(r) ==
  /\ r.kind = "resolved"
  /\ r.code = SIGTERM_CODE
  /\ r.stderr # <<>>
  /\ r.stderr[Len(r.stderr)] = TIMEOUT_NOTE

\* exec, for at most MaxLiveCmds commands
ExecLive ==
  /\ Cardinality(Cmds \ Unsubmitted) < MaxLiveCmds
  /\ Exec

NextLive ==
  \/ ExecLive
  \/ \E s \in Sessions : Poll(s)
  \/ Tick
  \/ \E c \in Cmds : Abort(c)
  \/ \E s \in Sessions : ShellDies(s)
  \/ \E s \in Sessions : ExitHandler(s)
  \/ \E s \in Sessions : ShellStart(s)
  \/ \E s \in Sessions : ShellEvalEnd(s)
  \/ \E s \in Sessions : ShellWriteStatus(s)

\* the owner of the AbortController calls abort() after the call has
\* settled: the event reaches the listeners still registered on the signal.
\* What the signal did before the settlement is not kept in the state, so
\* the step covers a first abort as well as one that finds the signal
\* aborted already and dispatches nothing
AbortLate(c) ==
  /\ Running
  /\ cmds[c].hasSignal
  /\ cmds[c].state = "settled"
  /\ ~cmds[c].aborted
  /\ LET w1 == [World EXCEPT !.cm[c].aborted = TRUE]
     IN Apply(IF cmds[c].listener THEN KillChildren(w1, cmds[c].sess) ELSE w1)
  /\ ServerIdle

NextLate ==
  \/ ExecLive
  \/ \E s \in Sessions : Poll(s)
  \/ Tick
  \/ \E c \in Cmds : Abort(c)
  \/ \E c \in Cmds : AbortLate(c)
  \/ \E s \in Sessions : ShellDies(s)
  \/ \E s \in Sessions : ExitHandler(s)
  \/ \E s \in Sessions : ShellStart(s)
  \/ \E s \in Sessions : ShellEvalEnd(s)
  \/ \E s \in Sessions : ShellWriteStatus(s)

SpecLate == Init /\ [][NextLate]_vars

\* the polling timer keeps firing and time keeps passing
FairSpec ==
  /\ Init /\ [][NextLive]_vars
  /\ WF_vars(Tick)
  /\ \A s \in Sessions : WF_vars(Poll(s))

\* the commands submitted and not settled
Pending == {c \in Cmds : cmds[c].state \in {"queued", "inflight"}}

\* C5: under fairness of the polling timer every submitted command
\* eventually settles, also when the subprocess dies while it is in flight:
\* a pending command leaves that state only by settling, a settled one
\* stays settled, and again and again no command is pending
C5_Settles ==
  /\ [][\A c \in Cmds :
          /\ c \in Pending => cmds'[c].state \in {"queued", "inflight", "settled"}
          /\ cmds[c].state = "settled" => cmds'[c].state = "settled"]_vars
  /\ []<>(Pending = {})

\* a command settles through the timeout path on a session whose
\* subprocess has died
C5_Witness ==
  \E c \in Cmds :
    /\ JustSettled(c)
    /\ TimedOutResult(ResultOf(c))
    /\ shells[cmds[c].sess].proc \in {"dead", "reaped"}

\* C6: a command whose exec_ rejects is settled, and the queue goes on:
\* either a later command is in flight or nothing is left waiting
C6_NoStall ==
  \A c \in Cmds :
    (JustSettled(c) /\ ResultOf(c).kind = "rejected") =>
      LET sh == shells[cmds[c].sess]
      IN /\ cmds[c].state = "settled"
         /\ IF sh.isExecuting
            THEN sh.current > c /\ cmds[sh.current].state = "inflight"
            ELSE sh.commandQueue = <<>> /\ sh.current = 0

\* a write threw, the command was rejected and the next one is in flight
C6_Witness ==
  \E c \in Cmds :
    /\ JustSettled(c) /\ ResultOf(c).kind = "rejected"
    /\ shells[cmds[c].sess].isExecuting
    /\ shells[cmds[c].sess].current > c

\* C7: a poll that finds the status file empty after the effective timeout
\* has passed resolves the command with code 143 and the timeout note last
\* in stderr
C7_Timeout ==
  [][\A s \in Sessions :
       LET sh == shells[s]
           c == sh.current
       IN (/\ c # 0
           /\ StatusFileSize(sh) = 0
           /\ sh.elapsed > commandTimeout(cmds[c].timeout)
           /\ cmds'[c].state = "settled")
          => /\ \E i \in 1..Len(settled') : settled'[i].cmd = c
             /\ \A i \in 1..Len(settled') :
                  settled'[i].cmd = c => TimedOutResult(settled'[i].result)]_vars

\* a command was resolved through the timeout branch while the shell
\* was up
C7_Witness ==
  \E c \in Cmds :
    /\ JustSettled(c)
    /\ TimedOutResult(ResultOf(c))
    /\ shells[cmds[c].sess].proc = "up"

\* C8: an abort of the command in flight signals the children and sets the
\* flag without delivering anything; the flag stays until the command
\* settles, a poll tick is due, and the result says interrupted
C8_Interrupt ==
  [][\A c \in Cmds :
       LET s == cmds[c].sess
       IN (cmds[c].state = "inflight" /\ shells[s].current = c) =>
            /\ (~cmds[c].aborted /\ cmds'[c].aborted) =>
                  /\ shells'[s].commandInterrupted
                  /\ ~shells'[s].child
                  /\ shells'[s].current = c
                  /\ PollFires(shells'[s])
                  /\ settled' = <<>>
            /\ (shells[s].commandInterrupted /\ shells'[s].current = c) =>
                  shells'[s].commandInterrupted
            /\ (shells[s].commandInterrupted /\ cmds'[c].state = "settled") =>
                  \E i \in 1..Len(settled') :
                    /\ settled'[i].cmd = c
                    /\ settled'[i].result.kind = "resolved"
                    /\ settled'[i].result.interrupted]_vars

\* a command was delivered with interrupted:true and the exit status the
\* shell wrote after the kill: the flag was set by the abort listener, not
\* by the timeout branch
C8_Witness ==
  \E c \in Cmds :
    /\ JustSettled(c)
    /\ ResultOf(c).kind = "resolved"
    /\ ResultOf(c).interrupted
    /\ ResultOf(c).code = SIGTERM_CODE
    /\ ~TimedOutResult(ResultOf(c))

\* C9: an abort of a command that waits in the queue changes nothing but
\* the signal: the queue, the flag and the subprocess stay as they are
C9_QueuedAbort ==
  [][\A c \in Cmds :
       (cmds[c].state = "queued" /\ ~cmds[c].aborted /\ cmds'[c].aborted) =>
         /\ shells' = shells
         /\ cmds'[c].state = "queued"
         /\ settled' = <<>>]_vars

\* the signal of a waiting command is aborted while another command runs
\* a child, uninterrupted
C9_Witness ==
  \E c \in Cmds :
    /\ cmds[c].state = "queued" /\ cmds[c].aborted
    /\ shells[cmds[c].sess].current # 0
    /\ shells[cmds[c].sess].child
    /\ ~shells[cmds[c].sess].commandInterrupted

\* a step in which killChildren ran on session s: an abort of the command
\* in flight, or a poll that took the timeout branch
KillStep(s) ==
  \/ \E c \in Cmds :
       /\ cmds[c].sess = s /\ cmds[c].listener
       /\ ~cmds[c].aborted /\ cmds'[c].aborted
  \/ /\ shells[s].current # 0
     /\ StatusFileSize(shells[s]) = 0
     /\ cmds'[shells[s].current].state = "settled"

\* C10: timeout and cancellation leave the shell process alone: the
\* subprocess and the alive flag are as before, the accessor still answers
\* with the same session, and a command dispatched in the same turn is
\* written to the same subprocess
C10_ShellSurvives ==
  [][\A s \in Sessions :
       KillStep(s) =>
         /\ shells'[s].proc = shells[s].proc
         /\ shells'[s].isAlive = shells[s].isAlive
         /\ instance' = instance
         /\ (instance = s /\ shells[s].isAlive) =>
              (~NeedsNew([inst |-> instance', sh |-> shells']))
         /\ (shells[s].proc = "up" /\ shells'[s].current # 0
              /\ shells'[s].current # shells[s].current) =>
              \E i \in 1..Len(shells'[s].stdin) :
                 shells'[s].stdin[i] = shells'[s].current]_vars

\* after a timed-out or interrupted command the session is alive, it is
\* the instance, and the next command is in flight on its subprocess
C10_Witness ==
  \E c \in Cmds :
    LET s == cmds[c].sess
    IN /\ JustSettled(c)
       /\ ResultOf(c).kind = "resolved"
       /\ (TimedOutResult(ResultOf(c)) \/ ResultOf(c).interrupted)
       /\ shells[s].proc = "up" /\ shells[s].isAlive /\ instance = s
       /\ shells[s].current > c

\* ------------------------------------------------------ output and syntax
\* what the data files of session s hold
Output(s) ==
  (IF shells[s].stdoutFile.exists THEN shells[s].stdoutFile.content ELSE <<>>)
    \o (IF shells[s].stderrFile.exists THEN shells[s].stderrFile.content ELSE <<>>)

\* every entry of the output was written by command c
Own(output, c) == \A i \in 1..Len(output) : output[i] = c

\* C11: the data files are empty when a command's composite line is
\* emitted, and the stdout and stderr delivered for a command (the stdout
\* of the result, and the stderr file it was read from) hold nothing an
\* earlier command wrote
C11_OwnOutput ==
  [][/\ \A c \in Cmds :
          (~cmds[c].emitted /\ cmds'[c].emitted) =>
             /\ shells'[cmds'[c].sess].stdoutFile = EmptyFile
             /\ shells'[cmds'[c].sess].stderrFile = EmptyFile
             /\ shells'[cmds'[c].sess].statusFile = EmptyFile
     /\ \A s \in Sessions :
          LET c == shells[s].current
          IN (c # 0 /\ cmds'[c].state = "settled") =>
               /\ \A i \in 1..Len(settled') :
                    settled'[i].cmd = c => Own(settled'[i].result.stdout, c)
               /\ Own(IF shells[s].stderrFile.exists
                      THEN shells[s].stderrFile.content ELSE <<>>, c)]_vars

\* the part of C11 the program keeps: empty files at the emit
C11_EmptyAtEmit ==
  [][\A c \in Cmds :
       (~cmds[c].emitted /\ cmds'[c].emitted) =>
          /\ shells'[cmds'[c].sess].stdoutFile = EmptyFile
          /\ shells'[cmds'[c].sess].stderrFile = EmptyFile
          /\ shells'[cmds'[c].sess].statusFile = EmptyFile]_vars

\* C12: a command that fails the syntax check is never written to the
\* shell and never polled; its exec resolves with code 128 and
\* interrupted:false
C12_SyntaxError ==
  [][/\ \A c \in Cmds :
          (cmds'[c].state \in {"queued", "inflight"} /\ ~cmds'[c].syntaxOk) =>
             /\ ~cmds'[c].emitted
             /\ \A s \in Sessions : shells'[s].current # c
     /\ \A i \in 1..Len(settled') :
          ~settled'[i].syntaxOk =>
             LET c == settled'[i].cmd
                 r == settled'[i].result
             IN /\ r.kind = "resolved"
                /\ r.code = SYNTAX_ERROR_CODE
                /\ ~r.interrupted
                /\ ~cmds[c].emitted
                /\ \A s \in Sessions :
                     /\ shells'[s].running # c
                     /\ \A k \in 1..Len(shells'[s].stdin) : shells'[s].stdin[k] # c]_vars

\* an invalid command was answered with 128 on a session whose shell is up
\* and has nothing to read
C12_Witness ==
  \E i \in 1..Len(settled) :
    /\ ~settled[i].syntaxOk
    /\ settled[i].result.code = SYNTAX_ERROR_CODE
    /\ shells[cmds[settled[i].cmd].sess].proc = "up"
    /\ shells[cmds[settled[i].cmd].sess].stdin = <<>>
    /\ shells[cmds[settled[i].cmd].sess].running = 0

\* C13: a syntax-invalid command never waits in the queue and never holds
\* the in-flight slot: between two turns no such command is pending
C13_NoQueue ==
  \A c \in Cmds :
    cmds[c].state \in {"queued", "inflight"} => cmds[c].syntaxOk

\* C14: a syntax-invalid command is answered with code 128 and empty stdout
\* and stderr, and afterwards the data files of its session hold nothing
C14_NoOutput ==
  [][\A i \in 1..Len(settled') :
       ~settled'[i].syntaxOk =>
          /\ settled'[i].result.code = SYNTAX_ERROR_CODE
          /\ settled'[i].result.stdout = <<>>
          /\ settled'[i].result.stderr = <<>>
          /\ LET s == cmds'[settled'[i].cmd].sess
             IN (IF shells'[s].stdoutFile.exists
                 THEN shells'[s].stdoutFile.content ELSE <<>>) = <<>>
                /\ (IF shells'[s].stderrFile.exists
                    THEN shells'[s].stderrFile.content ELSE <<>>) = <<>>]_vars

\* the file half of C14 alone: after an invalid command the data files of
\* its session hold nothing
C14_FilesEmpty ==
  \A i \in 1..Len(settled) :
    ~settled[i].syntaxOk => Output(cmds[settled[i].cmd].sess) = <<>>


\* ---------------------------------------------------------------- framing
\* the messages written in the bytes, in order
RECURSIVE MessagesIn(_)
MessagesIn(bytes) ==
  IF bytes = <<>> THEN <<>>
  ELSE IF Head(bytes).kind = "open"
       THEN <<Head(bytes).msg>> \o MessagesIn(Tail(bytes))
       ELSE MessagesIn(Tail(bytes))

\* the content bytes of messages from, from + 1, ..., to
RECURSIVE ContentOf(_, _)
ContentOf(from, to) ==
  IF from > to THEN <<>>
  ELSE <<Byte("open", from), Byte("close", from)>> \o ContentOf(from + 1, to)

\* every line of the input is a JSON message or empty
WellFormed(bytes) == \A i \in 1..Len(bytes) : bytes[i] # Junk

InOrder(handled) == \A i \in 1..Len(handled) : handled[i] = i

\* C15: for well-formed input and every partition into chunks, the
\* messages dispatched so far are the first ones written, each once and in
\* order; what is not dispatched is still whole in the accumulator or has
\* not arrived; no message whose line feed has arrived is left waiting
C15_Framing ==
  WellFormed(input) =>
    /\ InOrder(dispatched)
    /\ Content(buffer \o stream) =
         ContentOf(Len(dispatched) + 1, Len(MessagesIn(input)))
    /\ \A i \in 1..Len(buffer) :
         buffer[i].kind = "close" =>
           \A j \in (i + 1)..Len(buffer) : buffer[j] # LF
    /\ stream = <<>> => Len(dispatched) = Len(MessagesIn(input))

\* the first message was dispatched, the first half of the second one is
\* retained in the accumulator and its rest has not arrived
C15_Witness ==
  /\ WellFormed(input)
  /\ dispatched = <<1>>
  /\ Content(buffer) = <<Byte("open", 2)>>
  /\ Content(stream) = <<Byte("close", 2)>>

\* C16: once the whole input has arrived the process is running, no byte of an unparseable line
\* is left in the accumulator and every message written has been
\* dispatched, once and in order
C16_JunkDiscarded ==
  stream = <<>> =>
    /\ Running
    /\ \A i \in 1..Len(buffer) : buffer[i] # Junk
    /\ InOrder(dispatched)
    /\ Len(dispatched) = Len(MessagesIn(input))


\* -------------------------------------------------------------- handshake
\* the step handles a message of this method
Handles(method) ==
  /\ received'.msg # 0
  /\ received'.request.method = method

\* the step handles an id-bearing initialize with jsonrpc "2.0"
InitializeCase ==
  /\ Handles("initialize")
  /\ received'.request.hasId
  /\ received'.request.jsonrpc = JSON_RPC_VERSION

Supported(version) ==
  \E i \in 1..Len(SUPPORTED_VERSIONS) : SUPPORTED_VERSIONS[i] = version

\* C17: a step that handles a message without an id writes nothing
C17_NotificationSilent ==
  [][(received'.msg # 0 /\ ~received'.request.hasId) => sent' = <<>>]_vars

\* C18: initialize with a protocolVersion outside the supported set is
\* answered with a result carrying the server's preferred version, the
\* client capabilities are stored and the server is Operational; a
\* tools/list that is handled next is answered with a result
C18_UnsupportedVersion ==
  [][/\ (/\ InitializeCase
         /\ received'.request.params.protocolVersion # "none"
         /\ ~Supported(received'.request.params.protocolVersion))
       => /\ sent' = <<Written(received'.msg,
                               InitializeResult(SUPPORTED_VERSIONS[1]))>>
          /\ clientCapabilities' = "set"
          /\ initialized'
     /\ (/\ received.msg # 0
         /\ received.request.method = "initialize"
         /\ received.request.params.protocolVersion \notin {"none", MCP_VERSION}
         /\ sent # <<>>
         /\ sent[1].hasResult
         /\ Handles("tools/list")
         /\ received'.request.hasId
         /\ received'.request.jsonrpc = JSON_RPC_VERSION)
       => /\ sent' = <<Written(received'.msg, Result)>>
          /\ called' = {"handleToolsList"}
          /\ initialized']_vars

\* an uninitialized server has just answered initialize with version
\* "1.0.0": the result names the server's version and the server is
\* Operational
C18_Witness ==
  /\ received.msg # 0
  /\ ~received.initialized
  /\ received.request.method = "initialize"
  /\ received.request.params.protocolVersion = "1.0.0"
  /\ sent = <<Written(received.msg, InitializeResult(MCP_VERSION))>>
  /\ clientCapabilities = "set"
  /\ initialized

\* C19: initialize without protocolVersion is answered with the error the
\* handler throws: code -32602 and a data field
C19_MissingVersion ==
  [][(InitializeCase /\ received'.request.params.protocolVersion = "none")
       => sent' = <<Written(received'.msg, MissingVersion)>>]_vars

\* C20: initialize with a protocol version that arrives while the server
\* is Operational is answered with a result, and the server is Operational
\* afterwards
C20_Reinitialize ==
  [][(/\ InitializeCase
      /\ initialized
      /\ received'.request.params.protocolVersion # "none")
       => /\ Len(sent') = 1
          /\ sent'[1].msg = received'.msg
          /\ sent'[1].hasResult
          /\ ~sent'[1].hasError
          /\ initialized']_vars

\* an Operational server has just answered a second initialize with a
\* result and is Operational
C20_Witness ==
  /\ received.msg > 1
  /\ received.initialized
  /\ received.request.method = "initialize"
  /\ received.request.hasId
  /\ received.request.params.protocolVersion # "none"
  /\ Len(sent) = 1
  /\ sent[1].hasResult
  /\ initialized


\* ------------------------------------------------------------- pagination
RECURSIVE Flatten(_)
Flatten(seqs) ==
  IF seqs = <<>> THEN <<>> ELSE Head(seqs) \o Flatten(Tail(seqs))

\* the page size asked for
PageSize == IF limit = 0 THEN 20 ELSE limit

\* C21: the pages given so far are consecutive pieces of the registry in
\* registry order; every page but the last has the size asked for (20
\* without a limit); once nextCursor is empty every tool was listed
\* exactly once, and the last page is not larger than the size asked for
\* and is empty only if the registry is
C21_Pages ==
  /\ Flatten(pages) = [i \in 1..Len(Flatten(pages)) |-> i]
  /\ Len(Flatten(pages)) <= tools
  /\ \A i \in 1..Len(pages) :
       /\ Len(pages[i]) <= PageSize
       /\ (i < Len(pages) \/ cursor # <<>>) => Len(pages[i]) = PageSize
  /\ (pages # <<>> /\ cursor = <<>>) =>
       /\ Len(Flatten(pages)) = tools
       /\ Len(pages[Len(pages)]) = 0 => tools = 0
  /\ cursor # <<>> => Number(cursor) = Len(Flatten(pages))

\* 7 tools listed with limit 3: pages of 3, 3 and 1 tools and an empty
\* nextCursor
C21_Witness ==
  /\ tools = 7
  /\ limit = 3
  /\ Len(pages) = 3
  /\ Len(pages[1]) = 3
  /\ Len(pages[2]) = 3
  /\ Len(pages[3]) = 1
  /\ cursor = <<>>


\* --------------------------------------------------------- response order
\* the messages answered in the step, in the order written
Answered == [i \in 1..Len(sent') |-> sent'[i].msg]

\* the request that awaits command c when the step begins: the message
\* handled in the step if c is submitted in it
AwaitedBy(c) == IF cmds[c].state = "none" THEN received'.msg ELSE cmds[c].req

\* message m is a tools/call whose tool has not returned
AwaitsTool(m) == reqs[m].state = "pending" /\ reqs[m].tool # "none"

InFlight == {c \in Cmds : cmds[c].state = "inflight"}

\* C23: a request other than tools/call that arrives while a command of a
\* tools/call is running on the shell is answered in the turn in which it
\* arrives, and the command is still running after that turn
C23_NotBlocked ==
  [][(/\ received'.msg # 0
      /\ InFlight # {}
      /\ received'.request.hasId
      /\ received'.request.method # "tools/call")
       => /\ Len(sent') = 1
          /\ sent'[1].msg = received'.msg
          /\ \A c \in InFlight : cmds'[c].state = "inflight"]_vars

\* tools/list has been answered with a result while the command of an
\* earlier tools/call is running on the shell
C23_Witness ==
  /\ received.msg # 0
  /\ received.request.method = "tools/list"
  /\ received.request.hasId
  /\ Len(sent) = 1
  /\ sent[1].msg = received.msg
  /\ sent[1].hasResult
  /\ \E c \in Cmds :
       /\ cmds[c].state = "inflight"
       /\ cmds[c].req # 0
       /\ cmds[c].req < received.msg
       /\ reqs[cmds[c].req].state = "pending"


\* ---------------------------------------------------- the module's callers
\* C24: every line in the input of a shell is the composite line of a
\* command that the session's queue dispatched
C24_OnlyQueue ==
  \A s \in Sessions : \A i \in 1..Len(shells[s].stdin) :
    /\ shells[s].stdin[i] \in Cmds
    /\ cmds[shells[s].stdin[i]].sess = s
    /\ cmds[shells[s].stdin[i]].emitted

\* the files of session s that exist
Files(s) ==
  {f \in {"status", "stdout", "stderr", "cwd"} :
     CASE f = "status" -> shells[s].statusFile.exists
       [] f = "stdout" -> shells[s].stdoutFile.exists
       [] f = "stderr" -> shells[s].stderrFile.exists
       [] OTHER -> shells[s].cwdFile.exists}

\* the exit handler of session s has run
Dead(s) == shells[s].proc = "reaped"

\* C25: a session whose exit handler has run has none of its four files
C25_NoFiles ==
  \A s \in Sessions : Dead(s) => Files(s) = {}

\* the exit handler leaves no file behind
C25_HandlerDeletes ==
  [][\A s \in Sessions : (~Dead(s) /\ Dead(s)') => Files(s)' = {}]_vars

\* the step called getInstance: a command was submitted, or setCwd or
\* isGit was called
GetInstanceCalled ==
  \/ \E c \in Cmds : cmds[c].state = "none" /\ cmds'[c].state # "none"
  \/ "setCwd" \in called'
  \/ "isGit" \in called'

\* the session getInstance returned is alive; it is the one there was if
\* that one is not marked dead, else one with a new subprocess
Returned ==
  /\ instance' # 0
  /\ shells'[instance'].isAlive
  /\ IF instance # 0 /\ shells[instance].isAlive
     THEN instance' = instance
     ELSE /\ shells[instance'].proc = "none"
          /\ shells'[instance'].proc = "up"

\* C26 as stated: moreover, if the subprocess of the previous session has
\* exited, getInstance returns another session
C26_Original ==
  [][GetInstanceCalled =>
       /\ Returned
       /\ (instance # 0 /\ shells[instance].proc # "up") =>
            instance' # instance]_vars

\* C26: getInstance never returns a session marked dead: if the exit
\* handler of the previous session has run or restart was called it
\* constructs a session with a new subprocess, and while the current
\* session is not marked dead it returns that session
C26_GetInstance ==
  [][GetInstanceCalled => Returned]_vars

\* a command is in flight on the replacement of a session that had a
\* command and is marked dead
C26_Witness ==
  /\ instance = 2
  /\ shells[2].isAlive
  /\ shells[2].proc = "up"
  /\ \E c \in Cmds : cmds[c].sess = 2 /\ cmds[c].state = "inflight"
  /\ \E c \in Cmds : cmds[c].sess = 1
  /\ ~shells[1].isAlive

\* C27: setCwd with a path that does not exist submits no command and
\* touches no session (getInstance may construct one); with a path that
\* exists it submits exactly one command, through the queue of the
\* instance
C27_SetCwd ==
  [][/\ {"setCwd", "path missing"} \subseteq called' =>
          /\ cmds' = cmds
          /\ settled' = <<>>
          /\ \A s \in Sessions :
               \/ shells'[s] = shells[s]
               \/ shells[s].proc = "none" /\ shells'[s] = NewSession
               \/ shells'[s] = Dropped
     /\ {"setCwd", "path exists"} \subseteq called' =>
          /\ Cardinality({c \in Cmds : cmds[c].state = "none"
                                         /\ cmds'[c].state # "none"}) = 1
          /\ \A c \in Cmds :
               (cmds[c].state = "none" /\ cmds'[c].state # "none") =>
                 /\ cmds'[c].sess = instance'
                 /\ \/ cmds'[c].state = "queued"
                       /\ \E i \in 1..Len(shells'[instance'].commandQueue) :
                            shells'[instance'].commandQueue[i] = c
                    \/ cmds'[c].state = "inflight"
                       /\ shells'[instance'].current = c
                    \/ cmds'[c].state = "settled"
                       /\ \E i \in 1..Len(settled') : settled'[i].cmd = c]_vars

\* setCwd with a path that exists has put its cd behind a command that is
\* in flight
C27_Witness ==
  /\ called = {"setCwd", "path exists"}
  /\ \E c, d \in Cmds :
       /\ cmds[c].state = "inflight"
       /\ cmds[d].state = "queued"
       /\ cmds[c].sess = cmds[d].sess
       /\ shells[cmds[d].sess].commandQueue = <<d>>


\* ------------------------------------------------------------ descendants
\* the command in flight on session s is resolved in the step by a poll
\* that finds the status file empty after the effective timeout has passed
TimesOut(s) ==
  LET sh == shells[s]
      c == sh.current
  IN /\ c # 0
     /\ StatusFileSize(sh) = 0
     /\ sh.elapsed > commandTimeout(cmds[c].timeout)
     /\ \E i \in 1..Len(settled') : settled'[i].cmd = c

\* C28: after a command has timed out on a running shell, no process that
\* it started is left: neither a child of the shell nor a deeper descendant
C28_NoDescendants ==
  [][\A s \in Sessions :
       (TimesOut(s) /\ shells[s].proc = "up") =>
         ~shells'[s].child /\ ~shells'[s].deep]_vars

\* the part the code keeps: no child of the shell is left
C28_NoChildren ==
  [][\A s \in Sessions :
       (TimesOut(s) /\ shells[s].proc = "up") => ~shells'[s].child]_vars


\* --------------------------------------------------------------- BashTool
\* the characters that end a word of a shell command
Separators == {" ", ";"}

\* the text has the name as a whole word: between separators or the ends
HasWord(text, name) ==
  \E i \in 1..(Len(text) - Len(name) + 1) :
    /\ SubSeq(text, i, i + Len(name) - 1) = name
    /\ i = 1 \/ text[i - 1] \in Separators
    /\ i + Len(name) - 1 = Len(text) \/ text[i + Len(name)] \in Separators

BannedWords ==
  {k \in 1..Len(BANNED_COMMANDS) : HasWord(commandText, BANNED_COMMANDS[k])}

\* C29: once the handler was called with a command that has a banned name
\* as a whole word, it has answered with the error that names a banned
\* command the text has, no command was submitted and no session exists
C29_Banned ==
  (answer # NoAnswer /\ BannedWords # {}) =>
    /\ answer.kind = "banned"
    /\ \E k \in 1..Len(BANNED_COMMANDS) :
         /\ answer.bannedCmd = BANNED_COMMANDS[k]
         /\ RegexTest(BANNED_COMMANDS[k], commandText)
    /\ cmds = [c \in Cmds |-> NoCmd]
    /\ shells = [s \in Sessions |-> NoSession]
    /\ instance = 0
    /\ settled = <<>>

\* the handler has refused a command that has rm as its second word
C29_Witness ==
  /\ commandText = <<"x", ";", "r", "m">>
  /\ answer.kind = "banned"
  /\ answer.bannedCmd = <<"r", "m">>
  /\ cmds = [c \in Cmds |-> NoCmd]


\* thirty minutes, in milliseconds
ThirtyMinutes == 30 * 60 * 1000

\* C30: a command that BashTool's handler, called without a timeout, has
\* handed to the shell runs under an effective timeout of thirty minutes
C30_DefaultTimeout ==
  \A c \in Cmds :
    (answer.kind = "awaits exec" /\ cmds[c].state \in {"queued", "inflight"})
      => commandTimeout(cmds[c].timeout) = ThirtyMinutes


\* ------------------------------------------------------------- life cycle
\* C31: an Operational server stays Operational: no step clears the
\* initialized flag, and an initialize without protocol version leaves the
\* flag and the stored client capabilities as they were
C31_StaysOperational ==
  [][/\ initialized => initialized'
     /\ (InitializeCase /\ received'.request.params.protocolVersion = "none")
          => /\ initialized' = initialized
             /\ clientCapabilities' = clientCapabilities]_vars

\* the part the code keeps: a failed initialize leaves the capabilities
C31_CapabilitiesKept ==
  [][(InitializeCase /\ received'.request.params.protocolVersion = "none")
       => clientCapabilities' = clientCapabilities]_vars


\* ------------------------------------------------------ completion signal
\* the result with which command c settles in the step
SettlesWith(c, r) ==
  \E i \in 1..Len(settled') : settled'[i].cmd = c /\ settled'[i].result = r

\* C32: when the poll of the command in flight finds the status file
\* written, the status in it was written by the composite line of that
\* command, and the code reported is that status
C32_OwnStatus ==
  [][\A s \in Sessions :
       LET sh == shells[s]
           c == sh.current
       IN (/\ c # 0
           /\ StatusFileSize(sh) > 0
           /\ \E i \in 1..Len(settled') : settled'[i].cmd = c)
          => sh.statusFile.content[1].by = c]_vars

\* C33: a command that is resolved through the timeout branch and whose
\* signal was not aborted is reported with interrupted false, and a
\* result says interrupted only if the signal of its command was aborted
C33_Interrupted ==
  [][\A s \in Sessions :
       LET c == shells[s].current
       IN \A i \in 1..Len(settled') :
            (c # 0 /\ settled'[i].cmd = c
               /\ settled'[i].result.kind = "resolved")
              => /\ (TimesOut(s) /\ ~cmds[c].aborted)
                      => ~settled'[i].result.interrupted
                 /\ settled'[i].result.interrupted => cmds[c].aborted]_vars


\* ---------------------------------------------------- trigger while queued
\* the commands that wait in queue q ahead of command c
Ahead(q, c) ==
  {q[i] : i \in {j \in 1..Len(q) : \E k \in (j + 1)..Len(q) : q[k] = c}}

\* C34: a command whose signal was aborted while it waited leaves the queue
\* only after every command ahead of it, is dispatched with the interrupted flag clear, and,
\* once written to the shell, is resolved only by a poll that finds the
\* status file written or the timeout passed; through the status file its
\* result is not marked interrupted
C34_QueuedTrigger ==
  [][\A c \in Cmds :
       LET s == cmds[c].sess
       IN /\ (cmds[c].state = "queued" /\ cmds[c].aborted
                /\ cmds'[c].state # "queued")
              => /\ \A d \in Ahead(shells[s].commandQueue, c) :
                      cmds'[d].state \notin {"none", "queued"}
                 /\ cmds'[c].state = "inflight"
                      => /\ shells'[s].current = c
                         /\ ~shells'[s].commandInterrupted
          /\ (cmds[c].state = "inflight" /\ cmds[c].aborted
                /\ ~shells[s].commandInterrupted
                /\ cmds'[c].state = "settled")
              => /\ \/ StatusFileSize(shells[s]) > 0
                    \/ shells[s].elapsed > commandTimeout(cmds[c].timeout)
                 /\ StatusFileSize(shells[s]) > 0
                      => \E i \in 1..Len(settled') :
                           /\ settled'[i].cmd = c
                           /\ settled'[i].result.kind = "resolved"
                           /\ ~settled'[i].result.interrupted]_vars

\* a command aborted while it waited is in flight, the shell runs its child
\* and nothing has interrupted it
C34_Witness ==
  \E c \in Cmds :
    /\ cmds[c].state = "inflight" /\ cmds[c].aborted
    /\ shells[cmds[c].sess].current = c
    /\ shells[cmds[c].sess].running = c
    /\ shells[cmds[c].sess].child
    /\ ~shells[cmds[c].sess].commandInterrupted


\* ---------------------------------------------------- trigger after settle
\* C35: a settled command has no listener on its signal, and an abort of
\* the signal after the settlement changes no session, settles nothing and
\* touches no other command
C35_LateAbort ==
  [][\A c \in Cmds :
       /\ cmds[c].state = "settled" => ~cmds[c].listener
       /\ (cmds[c].state = "settled" /\ ~cmds[c].aborted /\ cmds'[c].aborted)
            => /\ shells' = shells
               /\ settled' = <<>>
               /\ \A d \in Cmds \ {c} : cmds'[d] = cmds[d]]_vars

\* the signal of a settled command has been aborted while a later command
\* of the same session runs a child, uninterrupted
C35_Witness ==
  \E c, d \in Cmds :
    /\ cmds[c].state = "settled" /\ cmds[c].aborted
    /\ cmds[d].state = "inflight" /\ cmds[d].sess = cmds[c].sess
    /\ shells[cmds[d].sess].current = d
    /\ shells[cmds[d].sess].running = d
    /\ shells[cmds[d].sess].child
    /\ ~shells[cmds[d].sess].commandInterrupted


\* --------------------------------------------------------- cwd side channel
\* C36: when the command in flight is resolved by a poll that finds the
\* status file written, the cwd file exists and holds the directory the
\* shell was in after that command, which is what pwd() then reads
C36_CwdAfterCommand ==
  [][\A s \in Sessions :
       LET sh == shells[s]
           c == sh.current
       IN (/\ c # 0
           /\ StatusFileSize(sh) > 0
           /\ \E i \in 1..Len(settled') : settled'[i].cmd = c)
          => /\ sh.cwdFile.exists
             /\ sh.cwdFile.content = <<c>>]_vars

\* what the order of the two writes does give: the cwd file was written
\* by the composite line that wrote the status
C36_CwdOfStatusLine ==
  [][\A s \in Sessions :
       LET sh == shells[s]
           c == sh.current
       IN (/\ c # 0
           /\ StatusFileSize(sh) > 0
           /\ \E i \in 1..Len(settled') : settled'[i].cmd = c)
          => /\ sh.cwdFile.exists
             /\ sh.cwdFile.content = <<sh.statusFile.content[1].by>>]_vars


\* ------------------------------------------------------------- drain loop
\* the commands of session s that were taken off the queue and are unsettled
Dequeued(s) == {c \in Cmds : cmds[c].state = "inflight" /\ cmds[c].sess = s}

\* C37: between turns a session with a waiting command is executing, and
\* a session that is executing has exactly one dequeued unsettled command
C37_NoStranded ==
  \A s \in Sessions :
    /\ shells[s].commandQueue # <<>> => shells[s].isExecuting
    /\ shells[s].isExecuting => Cardinality(Dequeued(s)) = 1
    /\ Cardinality(Dequeued(s)) <= 1

\* a command waits behind the one in flight
C37_Witness ==
  \E s \in Sessions :
    /\ shells[s].commandQueue # <<>>
    /\ shells[s].isExecuting
    /\ \E c \in Dequeued(s) : shells[s].current = c


\* ------------------------------------------------------------ JSON values
\* bytes hold a whole line, ended by a line feed, that is a well-formed
\* JSON text
HoldsCompleteLine(bytes) ==
  \E a \in 1..Len(bytes), b \in 1..Len(bytes) :
    /\ a < b
    /\ bytes[b] = LF
    /\ a = 1 \/ bytes[a - 1] = LF
    /\ \A i \in a..(b - 1) : bytes[i] # LF
    /\ JsonParse(SubSeq(bytes, a, b - 1)) # 0

\* C38: when every line of the input is a well-formed JSON text, whatever
\* its value, the accumulator holds no complete line after a chunk has been
\* processed, and the values dispatched are the first ones written, in
\* order
C38_Drained ==
  /\ ~HoldsCompleteLine(buffer)
  /\ InOrder(dispatched)

\* the same for a client that never writes the value null
C38_DrainedWithoutNull ==
  (\A i \in 1..Len(input) : input[i] # NullText) =>
    /\ ~HoldsCompleteLine(buffer)
    /\ InOrder(dispatched)


\* -------------------------------------------------------------- resources
\* C39: in the Operational state every read of a uri that resources/list
\* returned is answered with a result whose content describes the resource
\* of that uri
C39_Readable ==
  \A i \in 1..Len(reads) :
    (initialized /\ \E k \in 1..Len(listed) : listed[k] = reads[i].uri)
      => /\ reads[i].response.hasResult
         /\ reads[i].content = reads[i].uri

\* what the code does with a listed uri: the lookup finds no property of
\* that name in the array and the request is answered with a server error
C39_NotFound ==
  \A i \in 1..Len(reads) :
    (initialized /\ \E k \in 1..Len(listed) : listed[k] = reads[i].uri)
      => /\ reads[i].response.hasError
         /\ reads[i].response.code = SERVER_ERROR


C40_NegativeNeverEnds ==
  (limit < 0 /\ pages # <<>>) => cursor = toString(limit * Len(pages))

\* for every other limit the walk ends within one request per tool and
\* one more
C40_OthersEnd ==
  (limit >= 0 /\ Len(pages) > tools) => cursor = <<>>


TypeOK ==
  /\ instance \in 0..MaxSessions
  /\ \A s \in Sessions : shells[s].proc \in {"none", "up", "dead", "reaped"}
  /\ Len(settled) <= MaxCmds
  /\ initialized \in BOOLEAN
  /\ exited \in BOOLEAN
  /\ clientCapabilities \in {"null", "set"}
  /\ \A m \in Msgs : reqs[m].answers \in 0..2
  /\ Len(sent) <= MaxCmds + 1
====
